---- MODULE Spec2Model ----
(***************************************************************************)
(* Verification model of the Actual-Value Reconciliation Engine            *)
(* (src/src/scraper/actual_data_collector.py, class ActualDataCollector).  *)
(*                                                                         *)
(* Time is counted in whole seconds.  Floating point quantities (the       *)
(* backoff multiplier, the jitter factor) are kept in thousandths, sleeps  *)
(* in milliseconds.  Python's None is the value None below; every proper   *)
(* value of the model is >= 0.  The observability counters                 *)
(* network_failure_count / parsing_failure_count / db_failure_count are    *)
(* write-only in the program and are not part of the state.                *)
(***************************************************************************)
EXTENDS Integers, Sequences, FiniteSets, TLC

None == -1

(* ---------------------------------------------------------------------- *)
(* Bounds of the model                                                     *)
(* ---------------------------------------------------------------------- *)
\* the clock runs from StartTime to StartTime + MaxElapsed
MaxElapsed == 910
\* number of direct calls of collect_actual_data_for_event on one collector
\* instance in the fetch path
MaxCalls == 6
\* number of calls of collect_all_missing_actual_data on one collector instance
MaxRuns == 2
\* runs in the specification of runs that follow each other without waiting
MaxLongRuns == 3
\* number of direct calls of update_indicator_with_actual_data in the storage path
MaxUpdates == 2
\* number of direct calls of collect_actual_data_for_event in the retry path
MaxRetryCalls == 2

(* ---------------------------------------------------------------------- *)
(* Program constants                                                       *)
(* ---------------------------------------------------------------------- *)
circuit_breaker_threshold == 5
CooldownSeconds == 900
MatchWindowSeconds == 86400
BackoffCapMs == 60000
max_retries == 3
LookbackSeconds == 604800

StartTime == 700000
\* amounts by which the clock advances between two steps of the program
TickSteps == {450, 451}
\* the step used in the reconciliation pass, which compares no time to the
\* second
RunTickSteps == {450}
\* values of the constructor argument retry_limit
RetryLimits == {0, 1, 3}
\* those used to follow one call through a long retry loop
LongRetryLimits == {0, 1, 3, 8}
\* those used in the reconciliation pass
RunRetryLimits == {2}
\* values of random.uniform(0.5, 1.5), in thousandths
Jitters == {500, 1000, 1500}

Max(a, b) == IF a >= b THEN a ELSE b
Min(a, b) == IF a <= b THEN a ELSE b
Abs(a) == IF a >= 0 THEN a ELSE 0 - a
RECURSIVE Pow2(_)
Pow2(n) == IF n = 0 THEN 1 ELSE 2 * Pow2(n - 1)

(* ---------------------------------------------------------------------- *)
(* Strings are sequences of one-character strings                          *)
(* ---------------------------------------------------------------------- *)
UpperCase == <<"A","B","C","D","E","F","G","H","I","J","K","L","M",
               "N","O","P","Q","R","S","T","U","V","W","X","Y","Z">>
LowerCase == <<"a","b","c","d","e","f","g","h","i","j","k","l","m",
               "n","o","p","q","r","s","t","u","v","w","x","y","z">>

LowerChar(c) ==
    IF \E i \in 1..26 : UpperCase[i] = c
    THEN LowerCase[CHOOSE i \in 1..26 : UpperCase[i] = c]
    ELSE c

lower(s) == [i \in 1..Len(s) |-> LowerChar(s[i])]

RECURSIVE lstrip(_)
lstrip(s) == IF s # <<>> /\ s[1] = " " THEN lstrip(Tail(s)) ELSE s

RECURSIVE rstrip(_)
rstrip(s) == IF s # <<>> /\ s[Len(s)] = " " THEN rstrip(SubSeq(s, 1, Len(s) - 1)) ELSE s

strip(s) == rstrip(lstrip(s))

\* str.replace(old, new): leftmost, non-overlapping occurrences, one pass
RECURSIVE replace(_, _, _)
replace(s, old, new) ==
    IF Len(s) < Len(old) THEN s
    ELSE IF SubSeq(s, 1, Len(old)) = old
         THEN new \o replace(SubSeq(s, Len(old) + 1, Len(s)), old, new)
         ELSE <<s[1]>> \o replace(Tail(s), old, new)

\* Python's  a in b  for strings
contains(a, b) ==
    \E i \in 0..(Len(b) - Len(a)) : SubSeq(b, i + 1, i + Len(a)) = a

variations == <<
    << <<"m","/","m">>, <<"m","o","m">> >>,
    << <<"y","/","y">>, <<"y","o","y">> >>,
    << <<"q","/","q">>, <<"q","o","q">> >>,
    << <<" "," ">>, <<" ">> >>,
    << <<".">>, <<>> >>,
    << <<",">>, <<>> >> >>

RECURSIVE apply_variations(_, _)
apply_variations(name, k) ==
    IF k > Len(variations) THEN name
    ELSE apply_variations(replace(name, variations[k][1], variations[k][2]), k + 1)

\* an absent title is the empty string here (scraped_event.get("event_name", ""))
events_match(event_name1, event_name2) ==
    IF event_name1 = <<>> \/ event_name2 = <<>> THEN FALSE
    ELSE LET name1 == strip(lower(event_name1))
             name2 == strip(lower(event_name2))
         IN IF name1 = name2 THEN TRUE
            ELSE LET n1 == apply_variations(name1, 1)
                     n2 == apply_variations(name2, 1)
                 IN contains(n1, n2) \/ contains(n2, n1)

\* variant: the window is a second too wide
datetimes_match_m(datetime1, datetime2) ==
    IF datetime2 = None THEN FALSE
    ELSE Abs(datetime1 - datetime2) <= MatchWindowSeconds + 1

datetimes_match(datetime1, datetime2) ==
    IF datetime2 = None THEN FALSE
    ELSE Abs(datetime1 - datetime2) <= MatchWindowSeconds

(* ---------------------------------------------------------------------- *)
(* The Event Store and the Calendar Source                                 *)
(* ---------------------------------------------------------------------- *)
USD == <<"U","S","D">>
EUR == <<"E","U","R">>
TitleCpiMM == <<"C","P","I"," ","m","/","m">>
TitleCpiMom == <<"c","p","i"," ","m","o","m">>
TitleGdpQQ == <<"G","D","P"," ","q","/","q">>
TitleRetail == <<"R","e","t","a","i","l">>

\* rows of the events table (immutable)
Events == <<
    [currency |-> USD, event_name |-> TitleCpiMM,
     scheduled_datetime |-> StartTime - 3600, impact_level |-> "High"],
    [currency |-> EUR, event_name |-> TitleGdpQQ,
     scheduled_datetime |-> StartTime - 7200, impact_level |-> "High"],
    [currency |-> USD, event_name |-> TitleRetail,
     scheduled_datetime |-> StartTime - 1800, impact_level |-> "Low"] >>

EventIds == DOMAIN Events

\* rows of the indicators table after ingestion; event 1 has an older row
InitialIndicators == <<
    [event_id |-> 1, previous_value |-> 1, forecast_value |-> None,
     timestamp_collected |-> StartTime - 90000,
     actual_value |-> None, actual_collected_at |-> None, is_actual_available |-> FALSE],
    [event_id |-> 1, previous_value |-> 1, forecast_value |-> 2,
     timestamp_collected |-> StartTime - 80000,
     actual_value |-> None, actual_collected_at |-> None, is_actual_available |-> FALSE],
    [event_id |-> 2, previous_value |-> 2, forecast_value |-> 2,
     timestamp_collected |-> StartTime - 80000,
     actual_value |-> None, actual_collected_at |-> None, is_actual_available |-> FALSE],
    [event_id |-> 3, previous_value |-> None, forecast_value |-> None,
     timestamp_collected |-> StartTime - 80000,
     actual_value |-> None, actual_collected_at |-> None, is_actual_available |-> FALSE] >>

IndicatorIds == DOMAIN InitialIndicators
\* an id with no row in the indicators table
MissingIndicatorId == Len(InitialIndicators) + 1

\* indicator ids the caller may hand to update_indicator_with_actual_data
UpdateIds == {2, 3, MissingIndicatorId}

\* actual values the caller may hand to update_indicator_with_actual_data
Values == {1, 2}

ScrapedEvent(c, n, d, a) ==
    [currency |-> c, event_name |-> n, scheduled_datetime |-> d, actual_value |-> a]

\* non-empty results of scrape_calendar()
Snapshots == {
    \* event 1 is listed under its shorthand title with an actual value,
    \* event 2 is listed without one
    << ScrapedEvent(USD, TitleCpiMom, StartTime - 3600 + MatchWindowSeconds, 2),
       ScrapedEvent(EUR, TitleGdpQQ, StartTime - 7200, None) >>,
    \* event 1 is listed more than 24 hours away, event 2 with an actual value
    << ScrapedEvent(USD, TitleCpiMM, StartTime - 3600 + MatchWindowSeconds + 1, 2),
       ScrapedEvent(EUR, TitleGdpQQ, StartTime - 7200, None),
       ScrapedEvent(EUR, TitleGdpQQ, StartTime - 7200 - 60, 1) >>,
    \* nothing of interest
    << ScrapedEvent(USD, TitleRetail, None, 1) >> }

(* ---------------------------------------------------------------------- *)
(* State                                                                   *)
(* ---------------------------------------------------------------------- *)
VARIABLES
    now,                    \* datetime.utcnow(), in seconds
    retry_limit,            \* self.retry_limit
    monitor,                \* self.monitor is set (the collector was entered)
    consecutive_failures,   \* self.consecutive_failures
    circuit_breaker_open,   \* self.circuit_breaker_open
    last_failure_time,      \* self.last_failure_time
    backoff_multiplier,     \* self.backoff_multiplier, in thousandths
    indicators,             \* committed rows of the indicators table
    pending,                \* uncommitted changes of the session self.db
    c_pc,                   \* collect_actual_data_for_event: "idle", "attempt", "sleeping", "returned", "raised"
    c_event,                \* its argument (an event id)
    retry_count,            \* its local retry_count
    c_result,               \* its return value
    scrape_calls,           \* calls of scrape_calendar() made by the current call
    sleeps,                 \* calls of time.sleep() made by the current call
    backoff_time,           \* its local backoff_time while it sleeps, in milliseconds
    p_pc,                   \* update_indicator_with_actual_data: "idle", "attempt", "except", "returned", "raised"
    p_id,                   \* its argument indicator_id
    p_value,                \* its argument actual_value
    p_retry_count,          \* its local retry_count
    p_result,               \* its return value
    rollbacks,              \* calls of self.db.rollback() made by the current call
    r_pc,                   \* collect_all_missing_actual_data: "idle", "next", "collecting", "updating", "finish", "returned", "raised"
    events_missing_data,    \* its local list of pending events
    r_i,                    \* index of the pending event being processed
    total_processed,        \* its local total_processed
    successful_updates,     \* its local successful_updates
    calls,                  \* number of calls made on this instance so far
    h_failed_attempts,      \* history: fetch attempts that raised since the last success
    h_failed_calls,         \* history: calls that recorded a failure since the last success or breaker reset
    h_failures_before,      \* history: consecutive_failures when the current call began
    h_indicators_before,    \* history: the indicators table when the current update call began
    h_attempts,             \* history: attempts made by the current update call
    h_commit_raises,        \* history: attempts of the current update call whose commit raised
    h_previous_update,      \* history: <<indicator_id, actual_value, result>> of the update call before the current one
    h_persisted,            \* history: indicator id -> value of the updates that returned True in the current run
    h_query_failed,         \* history: the pending-event query of the current run raised
    h_run_collects,         \* history: calls of collect_actual_data_for_event made by the current run
    h_fetch_failed,         \* history: a call of the current run recorded a fetch failure
    h_update_failed,        \* history: an update of the current run returned False
    f_pc,                   \* the function applied last on its own ("idle" before any)
    f_in,                   \* its arguments
    f_out,                  \* its return value
    sentiments,             \* the committed rows of the table "sentiments"
    s_session,              \* the rows as the calculator's session sees them
    s_pc,                   \* position of calculate_weekly_sentiments
    s_items,                \* currency_sentiments of the call, as a list of items
    s_todo,                 \* the items the loop has still to go through
    s_window,               \* <<week_start, week_end>> of the call
    s_calls,                \* calls of calculate_weekly_sentiments made
    h_sentiments_before     \* history: the committed rows when the call began

breaker_vars == <<consecutive_failures, circuit_breaker_open, last_failure_time, backoff_multiplier>>
store_vars == <<indicators, pending>>
c_vars == <<c_pc, c_event, retry_count, c_result, scrape_calls, sleeps, backoff_time>>
p_vars == <<p_pc, p_id, p_value, p_retry_count, p_result, rollbacks>>
r_vars == <<r_pc, events_missing_data, r_i, total_processed, successful_updates>>
h_vars == <<h_failed_attempts, h_failed_calls, h_failures_before, h_indicators_before, h_previous_update, h_attempts, h_commit_raises, h_persisted,
            h_query_failed, h_run_collects, h_fetch_failed, h_update_failed>>
h_run_vars == <<h_persisted, h_query_failed, h_run_collects, h_fetch_failed, h_update_failed>>
f_vars == <<f_pc, f_in, f_out>>
s_vars == <<sentiments, s_session, s_pc, s_items, s_todo, s_window, s_calls, h_sentiments_before>>
\* the state of the collector instance and of its calls
collector_vars == <<now, retry_limit, monitor, breaker_vars, store_vars, c_vars, p_vars, r_vars, calls, h_vars>>
vars == <<collector_vars, f_vars, s_vars>>

\* saturation of the history counters
HistoryCap == 6

\* a new collector; the caller chooses retry_limit and whether it enters
\* the collector (which sets the monitor)
Init(retry_limits, monitors) ==
    /\ now = StartTime
    /\ retry_limit \in retry_limits
    /\ monitor \in monitors
    /\ consecutive_failures = 0
    /\ circuit_breaker_open = FALSE
    /\ last_failure_time = None
    /\ backoff_multiplier = 1000
    /\ indicators = InitialIndicators
    /\ pending = <<>>
    /\ c_pc = "idle" /\ c_event = None /\ retry_count = 0 /\ c_result = None
    /\ scrape_calls = 0 /\ sleeps = 0 /\ backoff_time = None
    /\ p_pc = "idle" /\ p_id = None /\ p_value = None /\ p_retry_count = 0
    /\ p_result = FALSE /\ rollbacks = 0
    /\ r_pc = "idle" /\ events_missing_data = <<>> /\ r_i = 0
    /\ total_processed = 0 /\ successful_updates = 0
    /\ calls = 0
    /\ h_failed_attempts = 0 /\ h_failed_calls = 0 /\ h_failures_before = 0
    /\ h_indicators_before = InitialIndicators
    /\ h_previous_update = <<None, None, FALSE>>
    /\ h_attempts = 0 /\ h_commit_raises = 0
    /\ h_persisted = <<>>
    /\ h_query_failed = FALSE /\ h_run_collects = 0
    /\ h_fetch_failed = FALSE /\ h_update_failed = FALSE
    /\ f_pc = "idle" /\ f_in = None /\ f_out = None
    /\ sentiments = <<>> /\ s_session = <<>>
    /\ s_pc = "idle" /\ s_items = <<>> /\ s_todo = <<>> /\ s_window = None /\ s_calls = 0
    /\ h_sentiments_before = <<>>

(* ---------------------------------------------------------------------- *)
(* Time                                                                    *)
(* ---------------------------------------------------------------------- *)
\* The clock advances between any two steps of the program; the time spent
\* in time.sleep() and in the collaborators passes in these steps.
Tick(d) ==
    /\ UNCHANGED <<f_vars, s_vars>>
    /\ now + d <= StartTime + MaxElapsed
    /\ now' = now + d
    /\ UNCHANGED <<retry_limit, monitor, breaker_vars, store_vars, c_vars, p_vars, r_vars, calls, h_vars>>

(* ---------------------------------------------------------------------- *)
(* Circuit breaker and backoff                                             *)
(* ---------------------------------------------------------------------- *)
\* variant: the breaker resets as soon as the cooldown is reached
cooldown_elapsed_m(t, last) ==
    last # None /\ t - last >= CooldownSeconds

\* the cooldown test of _is_circuit_breaker_open
cooldown_elapsed(t, last) ==
    last # None /\ t - last > CooldownSeconds

\* return value of _is_circuit_breaker_open()
is_circuit_breaker_open ==
    circuit_breaker_open /\ ~cooldown_elapsed(now, last_failure_time)

\* variant: the auto-reset closes the breaker but keeps the failure count
after_breaker_check_m ==
    IF circuit_breaker_open /\ cooldown_elapsed(now, last_failure_time)
    THEN <<consecutive_failures, FALSE, last_failure_time, 1000>>
    ELSE <<consecutive_failures, circuit_breaker_open, last_failure_time, backoff_multiplier>>

\* the breaker fields after _is_circuit_breaker_open(): <<failures, open, last, multiplier>>
after_breaker_check ==
    IF circuit_breaker_open /\ cooldown_elapsed(now, last_failure_time)
    THEN <<0, FALSE, last_failure_time, 1000>>
    ELSE <<consecutive_failures, circuit_breaker_open, last_failure_time, backoff_multiplier>>

\* variant: a success closes the breaker but keeps the failure count
record_success_m(b) ==
    <<b[1], FALSE, b[3], Max(500, (b[4] * 9) \div 10)>>

\* the breaker fields after _record_success(), from the fields b
record_success(b) ==
    <<0, FALSE, b[3], Max(500, (b[4] * 9) \div 10)>>

\* variant: the breaker opens only past the threshold
record_failure_m(b, t) ==
    <<b[1] + 1,
      IF b[1] + 1 > circuit_breaker_threshold THEN TRUE ELSE b[2],
      t,
      Min(2000, (b[4] * 11) \div 10)>>

\* variant: a failure tightens the multiplier without a ceiling
record_failure_unbounded(b, t) ==
    <<b[1] + 1,
      IF b[1] + 1 >= circuit_breaker_threshold THEN TRUE ELSE b[2],
      t,
      (b[4] * 11) \div 10>>

\* the breaker fields after _record_failure(), from the fields b, at time t
record_failure(b, t) ==
    <<b[1] + 1,
      IF b[1] + 1 >= circuit_breaker_threshold THEN TRUE ELSE b[2],
      t,
      Min(2000, (b[4] * 11) \div 10)>>

set_breaker(b) ==
    /\ consecutive_failures' = b[1]
    /\ circuit_breaker_open' = b[2]
    /\ last_failure_time' = b[3]
    /\ backoff_multiplier' = b[4]

\* _calculate_backoff_time(retry_count) with the given jitter, in milliseconds
calculate_backoff_time(rc, jitter) ==
    Min((Pow2(rc) * jitter * backoff_multiplier) \div 1000, BackoffCapMs)

(* ---------------------------------------------------------------------- *)
(* collect_actual_data_for_event                                           *)
(* ---------------------------------------------------------------------- *)
\* the scan of the snapshot: the actual value of the first entry that matches
\* the event and carries one, None when there is none
RECURSIVE find_actual_value(_, _, _)
find_actual_value(event, calendar_events, k) ==
    IF k > Len(calendar_events) THEN None
    ELSE LET scraped_event == calendar_events[k]
         IN IF /\ scraped_event.currency = event.currency
               /\ events_match(event.event_name, scraped_event.event_name)
               /\ datetimes_match(event.scheduled_datetime, scraped_event.scheduled_datetime)
               /\ scraped_event.actual_value # None
            THEN scraped_event.actual_value
            ELSE find_actual_value(event, calendar_events, k + 1)

\* variant: one iteration too many
loop_continues_m(rc) == rc <= retry_limit

\* the head of the while loop
loop_continues(rc) == rc < retry_limit

\* variant: the last exception is raised again
collect_exhausted_pc_m == "raised"

\* how the call ends when the last attempt raised: the exception is handled
\* and the function returns None
collect_exhausted_pc == "returned"

\* the guard of the backoff sleep
sleeps_before_attempt(rc) == rc > 0

\* entry of collect_actual_data_for_event(event): the breaker check
collect_enter(e) ==
    /\ UNCHANGED <<f_vars, s_vars>>
    /\ c_event' = e
    /\ retry_count' = 0
    /\ scrape_calls' = 0
    /\ sleeps' = 0
    /\ backoff_time' = None
    /\ c_result' = None
    /\ h_failures_before' = consecutive_failures
    /\ IF is_circuit_breaker_open
       THEN /\ c_pc' = "returned"
            /\ UNCHANGED <<breaker_vars, h_failed_calls>>
       ELSE /\ set_breaker(after_breaker_check)
            /\ h_failed_calls' = IF circuit_breaker_open THEN 0 ELSE h_failed_calls
            /\ c_pc' = IF loop_continues(0) THEN "attempt" ELSE "returned"
    /\ UNCHANGED <<now, retry_limit, monitor, store_vars, p_vars, h_failed_attempts,
                   h_indicators_before, h_previous_update, h_attempts, h_commit_raises, h_persisted, h_query_failed, h_update_failed>>

\* a retry begins with time.sleep(backoff_time)
collect_sleep ==
    /\ UNCHANGED <<f_vars, s_vars>>
    /\ c_pc = "attempt"
    /\ sleeps_before_attempt(retry_count)
    /\ \E jitter \in Jitters :
          backoff_time' = calculate_backoff_time(retry_count, jitter)
    /\ sleeps' = sleeps + 1
    /\ c_pc' = "sleeping"
    /\ UNCHANGED <<now, retry_limit, monitor, breaker_vars, store_vars, c_event, retry_count,
                   c_result, scrape_calls, p_vars, r_vars, calls, h_vars>>

\* the part common to every iteration of the retry loop once any sleep is
\* over: the call of scrape_calendar()
attempt_prefix ==
    /\ UNCHANGED <<f_vars, s_vars>>
    /\ \/ c_pc = "attempt" /\ ~sleeps_before_attempt(retry_count)
       \/ c_pc = "sleeping"
    /\ scrape_calls' = scrape_calls + 1
    /\ backoff_time' = None
    /\ UNCHANGED sleeps
    /\ UNCHANGED <<now, retry_limit, monitor, store_vars, c_event, p_vars, r_vars, calls,
                   h_failures_before, h_indicators_before, h_previous_update, h_attempts, h_commit_raises, h_persisted, h_query_failed,
                   h_run_collects, h_update_failed>>

\* variant: every attempt that raises is taken for the last one
retries_remain_m(rc) == FALSE

\* the test of the except clause, with rc the count after the increment:
\* a warning is logged and no failure recorded
retries_remain(rc) == rc < retry_limit

\* an iteration in which scrape_calendar() or the matching raises
collect_attempt_raises ==
    /\ attempt_prefix
    /\ retry_count' = retry_count + 1
    /\ h_failed_attempts' = Min(h_failed_attempts + 1, HistoryCap)
    /\ IF retries_remain(retry_count + 1)
       THEN UNCHANGED <<breaker_vars, h_failed_calls, h_fetch_failed>>
       ELSE /\ set_breaker(record_failure(breaker_vars, now))
            /\ h_failed_calls' = Min(h_failed_calls + 1, HistoryCap)
            /\ h_fetch_failed' = TRUE
    /\ c_pc' = IF loop_continues(retry_count + 1) THEN "attempt" ELSE collect_exhausted_pc
    /\ c_result' = None

\* an iteration in which scrape_calendar() returns no entries
collect_attempt_empty ==
    /\ attempt_prefix
    /\ retry_count' = retry_count + 1
    /\ c_pc' = IF loop_continues(retry_count + 1) THEN "attempt" ELSE "returned"
    /\ c_result' = None
    /\ UNCHANGED <<breaker_vars, h_failed_attempts, h_failed_calls, h_fetch_failed>>

\* variant: a success is recorded for every snapshot that has entries
breaker_after_snapshot_m(b, actual_value) == record_success(b)

\* the breaker fields after the search of a snapshot: _record_success() is
\* called only where an actual value is returned
breaker_after_snapshot(b, actual_value) ==
    IF actual_value # None THEN record_success(b) ELSE b

\* an iteration in which scrape_calendar() returns the entries calendar_events
collect_attempt_snapshot(calendar_events) ==
    /\ attempt_prefix
    /\ LET actual_value == find_actual_value(Events[c_event], calendar_events, 1)
       IN /\ c_result' = actual_value
          /\ set_breaker(breaker_after_snapshot(breaker_vars, actual_value))
          /\ IF actual_value # None
             THEN /\ h_failed_attempts' = 0
                  /\ h_failed_calls' = 0
             ELSE UNCHANGED <<h_failed_attempts, h_failed_calls>>
    /\ c_pc' = "returned"
    /\ UNCHANGED <<retry_count, h_fetch_failed>>

(* ---------------------------------------------------------------------- *)
(* The session self.db                                                     *)
(* ---------------------------------------------------------------------- *)
\* the attribute assignments of an update, held by the session until commit
assign_actual(pend, indicator_id, actual_value, t) ==
    [i \in (DOMAIN pend) \cup {indicator_id} |->
        IF i = indicator_id
        THEN [actual_value |-> actual_value, actual_collected_at |-> t,
              is_actual_available |-> TRUE]
        ELSE pend[i]]

\* variant: the commit is lost
session_commit_lost(table, pend) == table

\* variant: the availability flag is flipped instead of set
session_commit_flip(table, pend) ==
    [i \in DOMAIN table |->
        IF i \in DOMAIN pend
        THEN [table[i] EXCEPT !.actual_value = pend[i].actual_value,
                              !.actual_collected_at = pend[i].actual_collected_at,
                              !.is_actual_available = ~table[i].is_actual_available]
        ELSE table[i]]

\* variant: the commit also stamps the row's collection time
session_commit_stamp(table, pend) ==
    [i \in DOMAIN table |->
        IF i \in DOMAIN pend
        THEN [table[i] EXCEPT !.actual_value = pend[i].actual_value,
                              !.actual_collected_at = pend[i].actual_collected_at,
                              !.is_actual_available = pend[i].is_actual_available,
                              !.timestamp_collected = pend[i].actual_collected_at]
        ELSE table[i]]

\* the table after a successful self.db.commit() of the changes pend
session_commit(table, pend) ==
    [i \in DOMAIN table |->
        IF i \in DOMAIN pend
        THEN [table[i] EXCEPT !.actual_value = pend[i].actual_value,
                              !.actual_collected_at = pend[i].actual_collected_at,
                              !.is_actual_available = pend[i].is_actual_available]
        ELSE table[i]]

\* variant: the rollback is forgotten
session_rollback_m(pend) == pend

\* the uncommitted changes after self.db.rollback()
session_rollback(pend) == <<>>

(* ---------------------------------------------------------------------- *)
(* update_indicator_with_actual_data                                       *)
(* ---------------------------------------------------------------------- *)
\* variant: one attempt too few
update_loop_continues_m(rc) == rc < max_retries - 1

\* the head of the while loop
update_loop_continues(rc) == rc < max_retries

\* how the call ends when the last attempt raised: rollback, return False
update_exhausted_pc == "returned"

\* the return value when no row has the id
update_not_found_result == FALSE

update_enter(indicator_id, actual_value) ==
    /\ UNCHANGED <<f_vars, s_vars>>
    /\ p_pc' = "attempt"
    /\ p_id' = indicator_id
    /\ p_value' = actual_value
    /\ p_retry_count' = 0
    /\ p_result' = FALSE
    /\ rollbacks' = 0
    /\ h_indicators_before' = indicators
    /\ h_previous_update' = IF p_pc = "returned" THEN <<p_id, p_value, p_result>>
                                                ELSE <<None, None, FALSE>>
    /\ h_attempts' = 0
    /\ h_commit_raises' = 0
    /\ UNCHANGED <<now, retry_limit, monitor, breaker_vars, store_vars,
                   h_failed_attempts, h_failed_calls, h_failures_before,
                   h_query_failed, h_run_collects, h_fetch_failed, h_update_failed>>

update_frame ==
    UNCHANGED <<f_vars, s_vars, now, retry_limit, monitor, breaker_vars, c_vars, r_vars, calls, p_id, p_value,
                h_failed_attempts, h_failed_calls, h_failures_before, h_indicators_before, h_previous_update,
                h_query_failed, h_run_collects, h_fetch_failed>>

\* an attempt in which the row is found, updated and committed
update_attempt_commits ==
    /\ p_pc = "attempt"
    /\ h_attempts' = h_attempts + 1
    /\ UNCHANGED h_commit_raises
    /\ p_id \in DOMAIN indicators
    /\ indicators' = session_commit(indicators, assign_actual(pending, p_id, p_value, now))
    /\ pending' = <<>>
    /\ p_pc' = "returned"
    /\ p_result' = TRUE
    /\ h_persisted' = IF r_pc = "updating"
                      THEN [i \in (DOMAIN h_persisted) \cup {p_id} |->
                               IF i = p_id THEN p_value ELSE h_persisted[i]]
                      ELSE h_persisted
    /\ UNCHANGED <<p_retry_count, rollbacks, h_update_failed>>
    /\ update_frame

\* an attempt in which no row has the id
update_attempt_not_found ==
    /\ p_pc = "attempt"
    /\ h_attempts' = h_attempts + 1
    /\ UNCHANGED h_commit_raises
    /\ p_id \notin DOMAIN indicators
    /\ p_pc' = "returned"
    /\ p_result' = update_not_found_result
    /\ h_update_failed' = TRUE
    /\ UNCHANGED <<store_vars, p_retry_count, rollbacks, h_persisted>>
    /\ update_frame

\* an attempt in which the query raises
update_attempt_query_raises ==
    /\ p_pc = "attempt"
    /\ h_attempts' = h_attempts + 1
    /\ UNCHANGED h_commit_raises
    /\ p_pc' = "except"
    /\ UNCHANGED <<store_vars, p_retry_count, p_result, rollbacks, h_persisted, h_update_failed>>
    /\ update_frame

\* an attempt in which the row is found and updated and the commit raises
update_attempt_commit_raises ==
    /\ p_pc = "attempt"
    /\ h_attempts' = h_attempts + 1
    /\ h_commit_raises' = h_commit_raises + 1
    /\ p_id \in DOMAIN indicators
    /\ pending' = assign_actual(pending, p_id, p_value, now)
    /\ p_pc' = "except"
    /\ UNCHANGED <<indicators, p_retry_count, p_result, rollbacks, h_persisted, h_update_failed>>
    /\ update_frame

\* the except clause: count the attempt, roll back, retry or give up
update_except ==
    /\ p_pc = "except"
    /\ p_retry_count' = p_retry_count + 1
    /\ pending' = session_rollback(pending)
    /\ rollbacks' = rollbacks + 1
    /\ IF update_loop_continues(p_retry_count + 1)
       THEN /\ p_pc' = "attempt"
            /\ UNCHANGED <<p_result, h_update_failed>>
       ELSE /\ p_pc' = update_exhausted_pc
            /\ p_result' = FALSE
            /\ h_update_failed' = TRUE
    /\ UNCHANGED <<indicators, h_persisted, h_attempts, h_commit_raises>>
    /\ update_frame

(* ---------------------------------------------------------------------- *)
(* get_events_missing_actual_data                                          *)
(* ---------------------------------------------------------------------- *)
\* DISTINCT ON (event_id) ... ORDER BY event_id, timestamp_collected DESC:
\* the row of the event collected last, among those collected up to time t
latest_indicator(table, event_id, t) ==
    LET rows == {i \in DOMAIN table :
                    table[i].event_id = event_id /\ table[i].timestamp_collected <= t}
    IN IF rows = {} THEN None
       ELSE CHOOSE i \in rows :
                \A j \in rows : table[j].timestamp_collected <= table[i].timestamp_collected

\* the WHERE clause
is_missing_actual(table, event_id, t) ==
    /\ latest_indicator(table, event_id, t) # None
    /\ Events[event_id].scheduled_datetime >= t - LookbackSeconds
    /\ Events[event_id].scheduled_datetime <= t
    /\ Events[event_id].impact_level = "High"
    /\ ~table[latest_indicator(table, event_id, t)].is_actual_available

\* ORDER BY e.scheduled_datetime DESC
RECURSIVE order_by_scheduled_desc(_)
order_by_scheduled_desc(ids) ==
    IF ids = {} THEN <<>>
    ELSE LET first == CHOOSE e \in ids : \A f \in ids :
                          Events[f].scheduled_datetime <= Events[e].scheduled_datetime
         IN <<first>> \o order_by_scheduled_desc(ids \ {first})

get_events_missing_actual_data(table, t) ==
    LET ids == order_by_scheduled_desc({e \in EventIds : is_missing_actual(table, e, t)})
    IN [k \in 1..Len(ids) |->
           [event_id |-> ids[k], indicator_id |-> latest_indicator(table, ids[k], t)]]

(* ---------------------------------------------------------------------- *)
(* collect_all_missing_actual_data                                         *)
(* ---------------------------------------------------------------------- *)
no_call_in_progress ==
    /\ c_pc \in {"idle", "returned", "raised"}
    /\ p_pc \in {"idle", "returned", "raised"}
    /\ r_pc \in {"idle", "returned", "raised"}

\* a commit of the session made by the monitor (track_collection_attempt,
\* track_accuracy_metrics); its failure is logged and nothing is rolled back
monitor_commit ==
    IF monitor
    THEN \E ok \in BOOLEAN :
            IF ok THEN /\ indicators' = session_commit(indicators, pending)
                       /\ pending' = <<>>
                  ELSE UNCHANGED store_vars
    ELSE UNCHANGED store_vars

\* variant: the loop does not advance to the next pending event
after_event_m ==
    IF r_i < Len(events_missing_data)
    THEN /\ r_pc' = "next"
         /\ UNCHANGED r_i
    ELSE /\ r_pc' = "finish"
         /\ UNCHANGED r_i

\* the state after the loop body for the event r_i
after_event ==
    IF r_i < Len(events_missing_data)
    THEN /\ r_pc' = "next"
         /\ r_i' = r_i + 1
    ELSE /\ r_pc' = "finish"
         /\ UNCHANGED r_i

run_reset_history ==
    /\ h_persisted' = <<>>
    /\ h_run_collects' = 0
    /\ h_fetch_failed' = FALSE
    /\ h_update_failed' = FALSE

\* the call, with a pending-event query that raises: the error is tracked
\* and raised again
run_query_raises_within(max_runs) ==
    /\ UNCHANGED <<f_vars, s_vars>>
    /\ no_call_in_progress
    /\ calls < max_runs
    /\ calls' = calls + 1
    /\ r_pc' = "raised"
    /\ events_missing_data' = <<>>
    /\ r_i' = 0
    /\ total_processed' = 0
    /\ successful_updates' = 0
    /\ run_reset_history
    /\ h_query_failed' = TRUE
    /\ monitor_commit
    /\ UNCHANGED <<now, retry_limit, monitor, breaker_vars, c_vars, p_vars,
                   h_failed_attempts, h_failed_calls, h_failures_before, h_indicators_before, h_previous_update, h_attempts, h_commit_raises>>

\* the call, with a pending-event query that answers
run_query_answers_within(max_runs) ==
    /\ UNCHANGED <<f_vars, s_vars>>
    /\ no_call_in_progress
    /\ calls < max_runs
    /\ calls' = calls + 1
    /\ LET events == get_events_missing_actual_data(indicators, now)
       IN /\ events_missing_data' = events
          /\ IF events = <<>>
             THEN /\ r_pc' = "returned"
                  /\ r_i' = 0
                  /\ total_processed' = 0
                  /\ monitor_commit
             ELSE /\ r_pc' = "next"
                  /\ r_i' = 1
                  /\ total_processed' = Len(events)
                  /\ UNCHANGED store_vars
    /\ successful_updates' = 0
    /\ run_reset_history
    /\ h_query_failed' = FALSE
    /\ UNCHANGED <<now, retry_limit, monitor, breaker_vars, c_vars, p_vars,
                   h_failed_attempts, h_failed_calls, h_failures_before, h_indicators_before, h_previous_update, h_attempts, h_commit_raises>>

\* the two ways a call begins, in the specification of whole runs
run_query_raises == run_query_raises_within(MaxRuns)

run_query_answers == run_query_answers_within(MaxRuns)

\* the loop calls collect_actual_data_for_event for the event r_i
run_collect ==
    /\ r_pc = "next"
    /\ collect_enter(events_missing_data[r_i].event_id)
    /\ r_pc' = "collecting"
    /\ h_run_collects' = h_run_collects + 1
    /\ UNCHANGED <<events_missing_data, r_i, total_processed, successful_updates, calls,
                   h_fetch_failed>>

\* the call has come back: update the indicator, or go on with the next event
run_after_collect ==
    /\ UNCHANGED <<f_vars, s_vars>>
    /\ r_pc = "collecting"
    /\ c_pc \in {"returned", "raised"}
    /\ IF c_pc = "raised"
       THEN /\ r_pc' = "raised"
            /\ monitor_commit
            /\ UNCHANGED <<r_i, p_vars, h_indicators_before, h_previous_update, h_attempts, h_commit_raises>>
       ELSE IF c_result # None
       THEN /\ update_enter(events_missing_data[r_i].indicator_id, c_result)
            /\ r_pc' = "updating"
            /\ UNCHANGED r_i
       ELSE /\ after_event
            /\ UNCHANGED <<store_vars, p_vars, h_indicators_before, h_previous_update, h_attempts, h_commit_raises>>
    /\ UNCHANGED <<now, retry_limit, monitor, breaker_vars, c_vars, calls,
                   events_missing_data, total_processed, successful_updates,
                   h_failed_attempts, h_failed_calls, h_failures_before, h_run_vars>>

\* a counter that counts every update, the failed ones too
updates_after_m(count, updated) == count + 1

\* successful_updates after an update that answered True or False
updates_after(count, updated) == IF updated THEN count + 1 ELSE count

\* the update has come back: count it, track the accuracy, next event
run_after_update ==
    /\ UNCHANGED <<f_vars, s_vars>>
    /\ r_pc = "updating"
    /\ p_pc \in {"returned", "raised"}
    /\ IF p_pc = "raised"
       THEN /\ r_pc' = "raised"
            /\ monitor_commit
            /\ UNCHANGED <<r_i, successful_updates>>
       ELSE /\ successful_updates' = updates_after(successful_updates, p_result)
            /\ IF /\ p_result
                  /\ indicators[events_missing_data[r_i].indicator_id].forecast_value # None
                  /\ indicators[events_missing_data[r_i].indicator_id].previous_value # None
               THEN monitor_commit
               ELSE UNCHANGED store_vars
            /\ after_event
    /\ UNCHANGED <<now, retry_limit, monitor, breaker_vars, c_vars, p_vars, calls,
                   events_missing_data, total_processed,
                   h_failed_attempts, h_failed_calls, h_failures_before, h_indicators_before, h_previous_update, h_attempts, h_commit_raises,
                   h_run_vars>>

\* after the loop: the collection attempt is tracked and the counters returned
run_finish ==
    /\ UNCHANGED <<f_vars, s_vars>>
    /\ r_pc = "finish"
    /\ r_pc' = "returned"
    /\ monitor_commit
    /\ UNCHANGED <<now, retry_limit, monitor, breaker_vars, c_vars, p_vars, calls,
                   events_missing_data, r_i, total_processed, successful_updates, h_vars>>

(* ---------------------------------------------------------------------- *)
(* Calls made on the instance from outside collect_all_missing_actual_data *)
(* ---------------------------------------------------------------------- *)
call_collect(e) ==
    /\ no_call_in_progress
    /\ calls < MaxCalls
    /\ calls' = calls + 1
    /\ collect_enter(e)
    /\ UNCHANGED <<r_vars, h_run_collects, h_fetch_failed>>

\* the same call, in the specification of the retry loop
call_collect_retry(e) ==
    /\ no_call_in_progress
    /\ calls < MaxRetryCalls
    /\ calls' = calls + 1
    /\ collect_enter(e)
    /\ UNCHANGED <<r_vars, h_run_collects, h_fetch_failed>>

call_update(indicator_id, actual_value) ==
    /\ no_call_in_progress
    /\ calls < MaxUpdates
    /\ calls' = calls + 1
    /\ update_enter(indicator_id, actual_value)
    /\ h_persisted' = <<>>
    /\ UNCHANGED <<c_vars, r_vars>>

(* ---------------------------------------------------------------------- *)
(* Specifications                                                          *)
(* ---------------------------------------------------------------------- *)
\* the fetch path: calls of collect_actual_data_for_event on one instance
NextBreaker ==
    \/ \E d \in TickSteps : Tick(d)
    \/ \E e \in EventIds : call_collect(e)
    \/ collect_sleep
    \/ collect_attempt_raises
    \/ collect_attempt_empty
    \/ \E calendar_events \in Snapshots : collect_attempt_snapshot(calendar_events)

InitBreaker == Init(RetryLimits, {FALSE})

SpecBreaker == InitBreaker /\ [][NextBreaker]_vars

\* the retry loop: a few calls of collect_actual_data_for_event, with long
\* retry limits
NextRetry ==
    \/ \E d \in TickSteps : Tick(d)
    \/ \E e \in EventIds : call_collect_retry(e)
    \/ collect_sleep
    \/ collect_attempt_raises
    \/ collect_attempt_empty
    \/ \E calendar_events \in Snapshots : collect_attempt_snapshot(calendar_events)

InitRetry == Init(LongRetryLimits, {FALSE})

SpecRetry == InitRetry /\ [][NextRetry]_vars

\* the storage path: calls of update_indicator_with_actual_data on one instance
NextUpdate ==
    \/ \E d \in TickSteps : Tick(d)
    \/ \E id \in UpdateIds, v \in Values : call_update(id, v)
    \/ update_attempt_commits
    \/ update_attempt_not_found
    \/ update_attempt_query_raises
    \/ update_attempt_commit_raises
    \/ update_except

InitUpdate == Init({3}, {FALSE})

SpecUpdate == InitUpdate /\ [][NextUpdate]_vars

\* the reconciliation pass: calls of collect_all_missing_actual_data
NextRun ==
    \/ \E d \in RunTickSteps : Tick(d)
    \/ run_query_raises
    \/ run_query_answers
    \/ run_collect
    \/ collect_sleep
    \/ collect_attempt_raises
    \/ collect_attempt_empty
    \/ \E calendar_events \in Snapshots : collect_attempt_snapshot(calendar_events)
    \/ run_after_collect
    \/ update_attempt_commits
    \/ update_attempt_query_raises
    \/ update_attempt_commit_raises
    \/ update_except
    \/ run_after_update
    \/ run_finish

InitRun == Init(RunRetryLimits, BOOLEAN)

SpecRun == InitRun /\ [][NextRun]_vars

(* ---------------------------------------------------------------------- *)
(* Properties of the fetch path (SpecBreaker)                              *)
(* ---------------------------------------------------------------------- *)
\* a step in which the caller calls collect_actual_data_for_event
call_begins == calls' = calls + 1

\* the call returned None at once, without calling scrape_calendar()
short_circuited == c_pc' = "returned" /\ c_result' = None /\ scrape_calls' = 0

\* the call went on into its retry loop behind a closed, reset breaker
reset_and_admitted ==
    /\ c_pc' = "attempt"
    /\ consecutive_failures' = 0
    /\ circuit_breaker_open' = FALSE
    /\ backoff_multiplier' = 1000

\* C1 as stated: after 5 consecutive fetch attempts that failed, with no
\* success in between, the next call returns None without calling
\* scrape_calendar().
C1_AsStated ==
    [][(call_begins /\ h_failed_attempts >= 5) => short_circuited]_vars

\* C1 amended: after 5 calls have each recorded a failure (the attempt that
\* exhausted retry_limit raised), with no success and no breaker reset in
\* between, a call made at most 900 seconds after the last recorded failure
\* returns None without calling scrape_calendar().
C1_BreakerOpens ==
    [][(/\ call_begins
        /\ h_failed_calls >= circuit_breaker_threshold
        /\ last_failure_time # None
        /\ now - last_failure_time <= CooldownSeconds) => short_circuited]_vars

C1_Witness ==
    /\ c_pc = "returned" /\ scrape_calls = 0 /\ c_result = None
    /\ h_failed_calls >= circuit_breaker_threshold
    /\ h_failures_before >= circuit_breaker_threshold
    /\ retry_limit = 3

\* C2 as stated: while the breaker is open a call returns None without
\* calling scrape_calendar() until 15 minutes have passed since the last
\* failure; once 15 minutes have passed the call resets the breaker (closed,
\* no failures, multiplier 1.0) and scrape_calendar() is called again.
C2_AsStated ==
    [][(call_begins /\ circuit_breaker_open) =>
          IF now - last_failure_time < CooldownSeconds
          THEN short_circuited
          ELSE reset_and_admitted]_vars

\* C2 amended: while the breaker is open a call returns None without calling
\* scrape_calendar() as long as at most 900 seconds have passed since the
\* last failure; once more than 900 seconds have passed the call resets the
\* breaker (closed, no failures, multiplier 1.0) and goes on to call
\* scrape_calendar().
C2_Cooldown ==
    [][(call_begins /\ circuit_breaker_open) =>
          IF now - last_failure_time <= CooldownSeconds
          THEN short_circuited
          ELSE reset_and_admitted]_vars

C2_Witness ==
    /\ h_failures_before >= circuit_breaker_threshold
    /\ scrape_calls >= 1
    /\ now - last_failure_time > CooldownSeconds
    /\ ~circuit_breaker_open

\* C9: a call that returns an actual value leaves consecutive_failures at 0
\* and the breaker closed, whatever the count was before; the breaker is
\* open only after 5 failures recorded since the last success.
C9_SuccessResets ==
    /\ (c_pc = "returned" /\ c_result # None) =>
           (consecutive_failures = 0 /\ ~circuit_breaker_open)
    /\ circuit_breaker_open => h_failed_calls >= circuit_breaker_threshold

C9_Witness ==
    /\ c_pc = "returned" /\ c_result # None
    /\ h_failures_before = circuit_breaker_threshold - 1

(* ---------------------------------------------------------------------- *)
(* Properties of the retry loop (SpecRetry)                                *)
(* ---------------------------------------------------------------------- *)
\* C10: a call makes at most retry_limit calls of scrape_calendar(), whether
\* the attempts raise or come back empty; the first attempt is made without
\* sleeping and every later one after one sleep of at most 60 seconds; a call
\* in its loop can always take its next step, and every attempt either ends
\* the call or uses up one of the retry_limit retries, so the call ends.
C10_BoundedRetries ==
    /\ [](/\ scrape_calls <= retry_limit
          /\ c_pc \in {"attempt", "sleeping"} =>
                 ENABLED (collect_sleep \/ collect_attempt_raises \/ collect_attempt_empty)
          /\ retry_count <= retry_limit
          /\ c_pc \in {"attempt", "sleeping"} => retry_count < retry_limit
          /\ c_pc = "sleeping" =>
                 /\ scrape_calls >= 1
                 /\ sleeps = scrape_calls
                 /\ backoff_time # None
                 /\ backoff_time <= BackoffCapMs
          /\ c_pc # "sleeping" =>
                 /\ backoff_time = None
                 /\ sleeps = Max(scrape_calls - 1, 0))
    /\ [][scrape_calls' = scrape_calls + 1 =>
              (c_pc' = "returned" \/ retry_count' = retry_count + 1)]_vars

C10_Witness ==
    /\ c_pc = "sleeping"
    /\ backoff_time = BackoffCapMs
    /\ scrape_calls = 7

(* ---------------------------------------------------------------------- *)
(* Properties of the storage path (SpecUpdate)                             *)
(* ---------------------------------------------------------------------- *)
\* C5 as stated: the update returns False only after 3 attempts have failed.
C5_AsStated ==
    (p_pc = "returned" /\ ~p_result) => p_retry_count = max_retries

\* C5 amended: the update returns False only on an attempt that finds no row
\* with the id, or after 3 attempts have raised.
C5_FailureOnlyAfterRetries ==
    (p_pc = "returned" /\ ~p_result) =>
        \/ p_id \notin DOMAIN indicators
        \/ (p_retry_count = max_retries /\ h_attempts = max_retries)

C5_Witness ==
    /\ p_pc = "returned" /\ ~p_result
    /\ p_id \in DOMAIN indicators
    /\ h_attempts = max_retries

\* C6: every failed attempt is rolled back before the next attempt begins,
\* the committed rows do not change while the update is failing, and after
\* the update has returned False the table is what it was before the call
\* and the session holds no uncommitted change.
C6_RolledBack ==
    /\ p_pc = "attempt" => pending = <<>>
    /\ p_pc \in {"attempt", "except"} => indicators = h_indicators_before
    /\ (p_pc = "returned" /\ ~p_result) =>
           (indicators = h_indicators_before /\ pending = <<>>)
    /\ rollbacks = p_retry_count

C6_Witness ==
    /\ p_pc = "returned" /\ ~p_result
    /\ h_commit_raises >= 1
    /\ rollbacks = max_retries
    /\ h_indicators_before # InitialIndicators

\* C7: when the commit raises (in every attempt of the call), the update
\* returns False and the session is rolled back exactly once.
C7_AsStated ==
    (p_pc = "returned" /\ h_attempts >= 1 /\ h_commit_raises = h_attempts) =>
        (~p_result /\ rollbacks = 1)

C3_OnlyQueryFailureRaises ==
    /\ r_pc = "raised" => h_query_failed
    /\ c_pc # "raised" /\ p_pc # "raised"
    /\ r_pc \in {"finish", "returned"} =>
           /\ h_run_collects = Len(events_missing_data)
           /\ total_processed = Len(events_missing_data)

C3_Witness ==
    /\ r_pc = "returned"
    /\ h_fetch_failed /\ h_update_failed
    /\ h_run_collects = 2

C11_OneAtATime ==
    /\ [](/\ r_pc \in {"collecting", "updating"} =>
                 /\ r_i \in 1..Len(events_missing_data)
                 /\ h_run_collects = r_i
          /\ r_pc = "collecting" =>
                 /\ c_event = events_missing_data[r_i].event_id
                 /\ p_pc \notin {"attempt", "except"}
          /\ r_pc = "updating" =>
                 /\ p_id = events_missing_data[r_i].indicator_id
                 /\ c_pc = "returned"
          /\ r_pc = "next" =>
                 /\ c_pc \notin {"attempt", "sleeping"}
                 /\ p_pc \notin {"attempt", "except"}
                 /\ h_run_collects = r_i - 1)
    /\ [][/\ scrape_calls' = scrape_calls + 1 => r_pc = "collecting"
          /\ indicators' # indicators =>
                 /\ r_pc = "updating"
                 /\ \A id \in DOMAIN indicators :
                        indicators'[id] # indicators[id] =>
                            id = events_missing_data[r_i].indicator_id
          /\ r_i' # r_i =>
                 \/ r_pc \in {"collecting", "updating"} /\ r_i' = r_i + 1
                 \/ r_pc \in {"idle", "returned", "raised"}]_vars

C11_Witness ==
    /\ r_pc = "updating" /\ p_pc = "returned" /\ p_result
    /\ r_i = 2
    /\ Len(events_missing_data) = 2
    /\ DOMAIN h_persisted = {2, 3}

\* C12: a pass creates and deletes no row of the indicators table and never
\* changes event_id, previous_value, forecast_value or timestamp_collected of
\* a row; the only step that changes the table is the commit of an update
\* that returns True, made for the pending event at hand with the value
\* fetched for it, and it changes nothing but actual_value,
\* actual_collected_at and is_actual_available of that one row.  (The events
\* table is never written: Events is fixed.)
C12_OnlyActualFields ==
    /\ [](/\ DOMAIN indicators = DOMAIN InitialIndicators
          /\ \A id \in DOMAIN indicators :
                /\ indicators[id].event_id = InitialIndicators[id].event_id
                /\ indicators[id].previous_value = InitialIndicators[id].previous_value
                /\ indicators[id].forecast_value = InitialIndicators[id].forecast_value
                /\ indicators[id].timestamp_collected = InitialIndicators[id].timestamp_collected)
    /\ [][indicators' # indicators =>
             /\ r_pc = "updating" /\ p_pc = "attempt"
             /\ p_pc' = "returned" /\ p_result'
             /\ p_id = events_missing_data[r_i].indicator_id
             /\ p_value = c_result
             /\ indicators' = [indicators EXCEPT
                                  ![p_id].actual_value = p_value,
                                  ![p_id].actual_collected_at = now,
                                  ![p_id].is_actual_available = TRUE]]_vars

C12_Witness ==
    /\ r_pc = "returned"
    /\ successful_updates = 1
    /\ total_processed = 2
    /\ indicators[2].is_actual_available
    /\ indicators[1] = InitialIndicators[1]
    /\ indicators[3] = InitialIndicators[3]

(* ---------------------------------------------------------------------- *)
(* The matching functions on their own (SpecMatch)                         *)
(* ---------------------------------------------------------------------- *)
TitleCpiMMSpaced == <<"C","P","I"," "," "," ","m","/","m">>
TitleCpiPunct == <<" ","C","P","I",","," ","m","/","m","."," ">>
TitleCpi == <<"C","P","I">>
TitleCpiYY == <<"C","P","I"," ","Y","/","Y">>
TitleCpiYoy == <<"c","p","i"," ","y","o","y">>
TitleCpiYYFinal == <<"C","P","I"," ","y","/","y"," ","F","i","n","a","l">>
TitleGdpQoq == <<"g","d","p"," ","q","o","q">>

\* titles handed to _events_match; <<>> stands for "" and for None
MatchTitles ==
    {<<>>, TitleCpiMM, TitleCpiMom, TitleCpiMMSpaced, TitleCpiPunct, TitleCpi,
     TitleCpiYY, TitleCpiYoy, TitleCpiYYFinal, TitleGdpQQ, TitleGdpQoq, TitleRetail}

\* further results of scrape_calendar(), for the scan of the snapshot
MatchSnapshots == {
    \* the right title and time under another currency, then the right entry
    << ScrapedEvent(EUR, TitleCpiMM, StartTime - 3600, 1),
       ScrapedEvent(USD, TitleCpiMM, StartTime - 3600 - MatchWindowSeconds, 2) >>,
    \* two entries that match, with different values
    << ScrapedEvent(USD, TitleCpi, StartTime - 3600, 1),
       ScrapedEvent(USD, TitleCpiMom, StartTime - 3600, 2) >>,
    \* no title, no time, a second too early
    << ScrapedEvent(USD, <<>>, StartTime - 3600, 1),
       ScrapedEvent(USD, TitleCpiMM, None, 1),
       ScrapedEvent(USD, TitleCpiMM, StartTime - 3600 - MatchWindowSeconds - 1, 2) >>,
    \* another title of the same currency
    << ScrapedEvent(USD, TitleRetail, StartTime - 3600, 1),
       ScrapedEvent(EUR, TitleGdpQoq, StartTime - 7200, 2) >> }

f_frame == UNCHANGED <<collector_vars, s_vars>>

\* the scan of a snapshot for a stored event (the body of one attempt)
match_snapshot(e, calendar_events) ==
    /\ f_pc' = "find_actual_value"
    /\ f_in' = <<e, calendar_events>>
    /\ f_out' = find_actual_value(Events[e], calendar_events, 1)
    /\ f_frame

\* _events_match(event_name1, event_name2)
match_titles(event_name1, event_name2) ==
    /\ f_pc' = "events_match"
    /\ f_in' = <<event_name1, event_name2>>
    /\ f_out' = events_match(event_name1, event_name2)
    /\ f_frame

NextMatch ==
    \/ \E e \in EventIds, calendar_events \in Snapshots \cup MatchSnapshots :
          match_snapshot(e, calendar_events)
    \/ \E event_name1 \in MatchTitles, event_name2 \in MatchTitles :
          match_titles(event_name1, event_name2)

InitMatch == Init({3}, {FALSE})

SpecMatch == InitMatch /\ [][NextMatch]_vars

\* the entries of a snapshot that carry an actual value under the event's
\* currency, a title that matches the event's and a time within 24 hours
Hits(event, calendar_events) ==
    {k \in 1..Len(calendar_events) :
        /\ calendar_events[k].currency = event.currency
        /\ events_match(event.event_name, calendar_events[k].event_name)
        /\ calendar_events[k].scheduled_datetime # None
        /\ calendar_events[k].scheduled_datetime - event.scheduled_datetime <= 24 * 60 * 60
        /\ event.scheduled_datetime - calendar_events[k].scheduled_datetime <= 24 * 60 * 60
        /\ calendar_events[k].actual_value # None}

RECURSIVE SqueezeSpaces(_)
SqueezeSpaces(s) ==
    IF Len(s) < 2 THEN s
    ELSE IF s[1] = " " /\ s[2] = " " THEN SqueezeSpaces(Tail(s))
         ELSE <<s[1]>> \o SqueezeSpaces(Tail(s))

IsPunctuation(c) == c \in {".", ","}

Normalized(s) ==
    LET plain == SelectSeq(lower(s), LAMBDA c : ~IsPunctuation(c))
        spaced == strip(SqueezeSpaces(plain))
    IN replace(replace(replace(spaced, <<"m","/","m">>, <<"m","o","m">>),
                       <<"y","/","y">>, <<"y","o","y">>),
               <<"q","/","q">>, <<"q","o","q">>)

IsInfix(a, b) ==
    \E i \in 1..(Len(b) + 1), j \in 0..Len(b) : j >= i - 1 /\ SubSeq(b, i, j) = a

\* C14: _events_match is True exactly when both titles are non-empty and
\* their normal forms are equal or one is a substring of the other; an empty
\* or missing title matches nothing.
C14_AsStated ==
    f_pc = "events_match" =>
        (f_out <=> /\ f_in[1] # <<>>
                   /\ f_in[2] # <<>>
                   /\ \/ Normalized(f_in[1]) = Normalized(f_in[2])
                      \/ IsInfix(Normalized(f_in[1]), Normalized(f_in[2]))
                      \/ IsInfix(Normalized(f_in[2]), Normalized(f_in[1])))

(* ---------------------------------------------------------------------- *)
(* The Sentiment Engine: per-event sentiment                               *)
(* (src/src/analysis/sentiment_engine.py, class SentimentCalculator)       *)
(*                                                                         *)
(* Values and thresholds are counted in units of 1e-11, so that the        *)
(* tolerance 1e-10 of the equality test is 10 units.                       *)
(* ---------------------------------------------------------------------- *)
\* 1e-10
Epsilon == 10

\* self.inverse_indicators
inverse_indicators == {
    <<"u","n","e","m","p","l","o","y","m","e","n","t"," ","c","l","a","i","m","s">>,
    <<"i","n","i","t","i","a","l"," ","j","o","b","l","e","s","s"," ","c","l","a","i","m","s">>,
    <<"c","o","n","t","i","n","u","i","n","g"," ","j","o","b","l","e","s","s"," ","c","l","a","i","m","s">>,
    <<"u","n","e","m","p","l","o","y","m","e","n","t"," ","r","a","t","e">>,
    <<"j","o","b","l","e","s","s"," ","c","l","a","i","m","s">>,
    <<"w","e","e","k","l","y"," ","u","n","e","m","p","l","o","y","m","e","n","t"," ","c","l","a","i","m","s">>,
    <<"b","u","s","i","n","e","s","s"," ","i","n","v","e","n","t","o","r","i","e","s">>,
    <<"c","r","u","d","e"," ","o","i","l"," ","i","n","v","e","n","t","o","r","i","e","s">> }

\* the keywords of a speaking event
speaking_keywords == {
    <<"s","p","e","a","k","s">>,
    <<"s","p","e","e","c","h">>,
    <<"m","e","e","t","i","n","g">>,
    <<"c","o","n","f","e","r","e","n","c","e">>,
    <<"s","t","a","t","e","m","e","n","t">>,
    <<"p","r","e","s","s">> }

TitleUnemploymentRate == <<"U","S"," ","U","n","e","m","p","l","o","y","m","e","n","t"," ","R","a","t","e">>
TitleJoblessClaims == <<"I","n","i","t","i","a","l"," ","J","o","b","l","e","s","s"," ","C","l","a","i","m","s">>
TitleFedSpeaks == <<"F","e","d"," ","C","h","a","i","r"," ","S","p","e","a","k","s">>
TitlePressConference == <<"E","C","B"," ","P","R","E","S","S"," ","C","o","n","f","e","r","e","n","c","e">>
TitleClaimsStatement == <<"J","o","b","l","e","s","s"," ","C","l","a","i","m","s"," ","S","t","a","t","e","m","e","n","t">>
TitleInventories == <<"C","r","u","d","e"," ","O","i","l"," ","I","n","v","e","n","t","o","r","i","e","s">>

\* variant: only a title that is an inverse indicator's name in full counts
is_inverse_indicator_m(event_name) ==
    lower(event_name) \in inverse_indicators

\* is_inverse_indicator(event_name)
is_inverse_indicator(event_name) ==
    \E inverse_indicator \in inverse_indicators :
        contains(inverse_indicator, lower(event_name))

\* variant: no title is a speaking event
is_speaking_event_m(event_name) == FALSE

\* any(keyword in event_name.lower() for keyword in [...])
is_speaking_event(event_name) ==
    \E keyword \in speaking_keywords : contains(keyword, lower(event_name))

\* variant: only exactly equal values are equal
values_equal_m(difference) == difference = 0

\* abs(difference) <= 1e-10
values_equal(difference) == Abs(difference) <= Epsilon

\* variant: the result keeps the data_available flag it was initialised with
missing_data_m == [sentiment |-> 0, sentiment_label |-> "Neutral", data_available |-> TRUE]

\* the result when a value is missing
missing_data == [sentiment |-> 0, sentiment_label |-> "Neutral", data_available |-> FALSE]

neutral == [sentiment |-> 0, sentiment_label |-> "Neutral", data_available |-> TRUE]
bullish == [sentiment |-> 1, sentiment_label |-> "Bullish", data_available |-> TRUE]
bearish == [sentiment |-> -1, sentiment_label |-> "Bearish", data_available |-> TRUE]

\* the threshold logic, with the inverse consideration
threshold_sentiment(difference, threshold, is_inverse) ==
    IF is_inverse
    THEN IF difference > threshold THEN bearish
         ELSE IF difference < 0 - threshold THEN bullish
         ELSE neutral
    ELSE IF difference > threshold THEN bullish
         ELSE IF difference < 0 - threshold THEN bearish
         ELSE neutral

\* calculate_event_sentiment(event), with self.threshold = threshold:
\* the fields sentiment, sentiment_label, data_available of the result
calculate_event_sentiment(event, threshold) ==
    LET previous == event.previous_value
        forecast == event.forecast_value
        event_name == event.event_name
    IN IF previous = None \/ forecast = None THEN missing_data
       ELSE IF is_speaking_event(event_name) THEN neutral
       ELSE IF values_equal(forecast - previous) THEN bullish
       ELSE threshold_sentiment(forecast - previous, threshold, is_inverse_indicator(event_name))

\* calculate_actual_event_sentiment(event), with self.threshold = threshold:
\* the fields actual_sentiment, actual_sentiment_label, actual_data_available
\* of the result, under the names of the forecast-based result
calculate_actual_event_sentiment(event, threshold) ==
    LET previous == event.previous_value
        actual == event.actual_value
        event_name == event.event_name
    IN IF previous = None \/ actual = None THEN missing_data
       ELSE IF is_speaking_event(event_name) THEN neutral
       ELSE IF values_equal(actual - previous) THEN neutral
       ELSE threshold_sentiment(actual - previous, threshold, is_inverse_indicator(event_name))

\* titles, values and thresholds handed to the two functions
SentimentTitles ==
    {TitleCpiMM, TitleGdpQQ, TitleUnemploymentRate, TitleJoblessClaims, TitleInventories,
     TitleFedSpeaks, TitlePressConference, TitleClaimsStatement}
PreviousValues == {None, 0, 100}
CompareValues == {None, 0, 50, 89, 90, 95, 100, 105, 110, 111, 150}
Thresholds == {-20, 0, 5, 50}

ForecastEvents ==
    [event_name : SentimentTitles, previous_value : PreviousValues,
     forecast_value : CompareValues]
ActualEvents ==
    [event_name : SentimentTitles, previous_value : PreviousValues,
     actual_value : CompareValues]

apply_event_sentiment(event, threshold) ==
    /\ f_pc = "idle"
    /\ f_pc' = "calculate_event_sentiment"
    /\ f_in' = [event |-> event, threshold |-> threshold]
    /\ f_out' = calculate_event_sentiment(event, threshold)
    /\ f_frame

apply_actual_event_sentiment(event, threshold) ==
    /\ f_pc = "idle"
    /\ f_pc' = "calculate_actual_event_sentiment"
    /\ f_in' = [event |-> event, threshold |-> threshold]
    /\ f_out' = calculate_actual_event_sentiment(event, threshold)
    /\ f_frame

NextSentiment ==
    \/ \E event \in ForecastEvents, threshold \in Thresholds :
          apply_event_sentiment(event, threshold)
    \/ \E event \in ActualEvents, threshold \in Thresholds :
          apply_actual_event_sentiment(event, threshold)

InitSentiment == Init({3}, {FALSE})

SpecSentiment == InitSentiment /\ [][NextSentiment]_vars

(* ---------------------------------------------------------------------- *)
(* Properties of the per-event sentiment (SpecSentiment)                   *)
(* ---------------------------------------------------------------------- *)
\* the titles by kind, as a reader of the calendar sorts them
InverseTitles == {TitleUnemploymentRate, TitleJoblessClaims, TitleInventories, TitleClaimsStatement}
SpeakingTitles == {TitleFedSpeaks, TitlePressConference, TitleClaimsStatement}

forecast_based == f_pc = "calculate_event_sentiment"
actual_based == f_pc = "calculate_actual_event_sentiment"

\* the value compared with the previous one
CompareValue(event) ==
    IF "forecast_value" \in DOMAIN event THEN event.forecast_value ELSE event.actual_value

WithCompareValue(event, title) ==
    IF "forecast_value" \in DOMAIN event
    THEN [event_name |-> title, previous_value |-> event.previous_value,
          forecast_value |-> event.forecast_value]
    ELSE [event_name |-> title, previous_value |-> event.previous_value,
          actual_value |-> event.actual_value]

\* the sentiment of the same values and threshold under another title
UnderTitle(title) ==
    IF forecast_based
    THEN calculate_event_sentiment(WithCompareValue(f_in.event, title), f_in.threshold).sentiment
    ELSE calculate_actual_event_sentiment(WithCompareValue(f_in.event, title), f_in.threshold).sentiment

both_present ==
    f_in.event.previous_value # None /\ CompareValue(f_in.event) # None

Difference == CompareValue(f_in.event) - f_in.event.previous_value

\* C15: when the previous value or the compared value (forecast, actual) is
\* absent, both functions return sentiment 0, label Neutral and
\* data_available False, whatever the title and the threshold.
C15_MissingIsNeutral ==
    ((forecast_based \/ actual_based) /\ ~both_present) =>
        /\ f_out.sentiment = 0
        /\ f_out.sentiment_label = "Neutral"
        /\ f_out.data_available = FALSE

C15_Witness ==
    /\ actual_based
    /\ f_in.event.previous_value = None
    /\ f_in.event.actual_value = 150
    /\ f_in.event.event_name = TitleUnemploymentRate
    /\ f_in.threshold = 5
    /\ f_out.sentiment = 0 /\ ~f_out.data_available

\* C16 as stated: for an inverse-indicator title and any two numbers, the
\* sentiment is the negation of the sentiment of the same numbers and
\* threshold under any title that is no inverse indicator.
C16_AsStated ==
    ((forecast_based \/ actual_based) /\ both_present
        /\ f_in.event.event_name \in InverseTitles) =>
        \A title \in SentimentTitles \ InverseTitles :
            f_out.sentiment = 0 - UnderTitle(title)

\* C16 amended: the same, for titles that hold no speaking keyword and, in
\* the forecast-based function, for numbers more than 1e-10 apart.
C16_InverseNegates ==
    ((forecast_based \/ actual_based) /\ both_present
        /\ f_in.event.event_name \in InverseTitles \ SpeakingTitles
        /\ (forecast_based => Abs(Difference) > Epsilon)) =>
        \A title \in SentimentTitles \ (InverseTitles \cup SpeakingTitles) :
            f_out.sentiment = 0 - UnderTitle(title)

C16_Witness ==
    /\ forecast_based
    /\ f_in.event.event_name = TitleUnemploymentRate
    /\ f_in.event.previous_value = 100
    /\ f_in.event.forecast_value = 150
    /\ f_in.threshold = 5
    /\ f_out.sentiment = -1
    /\ UnderTitle(TitleCpiMM) = 1

\* C17 as stated: when both values are present and at most 1e-10 apart, the
\* forecast-based function returns +1 Bullish and the actual-based function
\* 0 Neutral, whatever the threshold and the title.
C17_AsStated ==
    ((forecast_based \/ actual_based) /\ both_present /\ Abs(Difference) <= Epsilon) =>
        /\ forecast_based => (f_out.sentiment = 1 /\ f_out.sentiment_label = "Bullish")
        /\ actual_based => (f_out.sentiment = 0 /\ f_out.sentiment_label = "Neutral")

\* C17 amended: the same, where for the forecast-based function the title
\* holds no speaking keyword.
C17_EqualValues ==
    ((forecast_based \/ actual_based) /\ both_present /\ Abs(Difference) <= Epsilon) =>
        /\ (forecast_based /\ f_in.event.event_name \notin SpeakingTitles) =>
               (f_out.sentiment = 1 /\ f_out.sentiment_label = "Bullish")
        /\ actual_based => (f_out.sentiment = 0 /\ f_out.sentiment_label = "Neutral")

C17_Witness ==
    /\ forecast_based
    /\ f_in.event.event_name = TitleUnemploymentRate
    /\ f_in.event.previous_value = 100
    /\ f_in.event.forecast_value = 110
    /\ f_in.threshold = 0
    /\ f_out.sentiment = 1

\* the sentiment that the difference alone gives
DirectionalSentiment ==
    LET up == IF f_in.event.event_name \in InverseTitles THEN -1 ELSE 1
    IN IF Abs(Difference) <= Epsilon THEN 0
       ELSE IF Difference > f_in.threshold THEN up
       ELSE IF Difference < 0 - f_in.threshold THEN 0 - up
       ELSE 0

MaxEvents == 5

\* event.get("sentiment", 0)
get_sentiment(event) ==
    IF "sentiment" \in DOMAIN event THEN event.sentiment ELSE 0

no_counts == [bullish |-> 0, bearish |-> 0, neutral |-> 0]

\* the counting loop over currency_events[k..]
RECURSIVE count_sentiments(_, _, _)
count_sentiments(currency_events, k, sentiment_counts) ==
    IF k > Len(currency_events) THEN sentiment_counts
    ELSE LET sentiment == get_sentiment(currency_events[k])
         IN count_sentiments(currency_events, k + 1,
                IF sentiment > 0
                THEN [sentiment_counts EXCEPT !.bullish = @ + 1]
                ELSE IF sentiment < 0
                THEN [sentiment_counts EXCEPT !.bearish = @ + 1]
                ELSE [sentiment_counts EXCEPT !.neutral = @ + 1])

majority_bullish_m(sentiment_counts) ==
    /\ sentiment_counts.bullish > sentiment_counts.bearish
    /\ sentiment_counts.bullish >= sentiment_counts.neutral

majority_bullish(sentiment_counts) ==
    /\ sentiment_counts.bullish > sentiment_counts.bearish
    /\ sentiment_counts.bullish > sentiment_counts.neutral

majority_bearish(sentiment_counts) ==
    /\ sentiment_counts.bearish > sentiment_counts.bullish
    /\ sentiment_counts.bearish > sentiment_counts.neutral

majority_neutral_m(sentiment_counts) ==
    /\ sentiment_counts.neutral >= sentiment_counts.bullish
    /\ sentiment_counts.neutral >= sentiment_counts.bearish

majority_neutral(sentiment_counts) ==
    /\ sentiment_counts.neutral > sentiment_counts.bullish
    /\ sentiment_counts.neutral > sentiment_counts.bearish

tie_resolves_bearish_m(sentiment_counts) ==
    sentiment_counts.bearish > sentiment_counts.bullish

\* the test of the tie branch
tie_resolves_bearish(sentiment_counts) ==
    sentiment_counts.bearish >= sentiment_counts.bullish

resolution(final_sentiment, final_value, total_events, sentiment_counts) ==
    [final_sentiment |-> final_sentiment,
     final_sentiment_value |-> final_value,
     event_count |-> total_events,
     sentiment_breakdown |-> sentiment_counts]

\* resolve_currency_conflicts(currency_events): the result without its
\* "reason" text
resolve_currency_conflicts(currency_events) ==
    IF Len(currency_events) = 0
    THEN resolution("Neutral", 0, 0, no_counts)
    ELSE LET sentiment_counts == count_sentiments(currency_events, 1, no_counts)
             total_events == Len(currency_events)
         IN IF majority_bullish(sentiment_counts)
            THEN resolution("Bullish", 1, total_events, sentiment_counts)
            ELSE IF majority_bearish(sentiment_counts)
            THEN resolution("Bearish", -1, total_events, sentiment_counts)
            ELSE IF majority_neutral(sentiment_counts)
            THEN resolution("Neutral", 0, total_events, sentiment_counts)
            ELSE IF tie_resolves_bearish(sentiment_counts)
            THEN resolution("Bearish with Consolidation", -1, total_events, sentiment_counts)
            ELSE resolution("Bullish with Consolidation", 1, total_events, sentiment_counts)

\* the analysed events of a currency: sentiments of either sign and size, and
\* an event without the key
AnalysedEvents ==
    [sentiment : {-2, -1, 0, 1, 2}] \cup {[data_available |-> FALSE]}

\* the lists of at most n analysed events
EventLists(n) == UNION {[1..k -> AnalysedEvents] : k \in 0..n}

apply_resolve(currency_events) ==
    /\ f_pc = "idle"
    /\ f_pc' = "resolve_currency_conflicts"
    /\ f_in' = currency_events
    /\ f_out' = resolve_currency_conflicts(currency_events)
    /\ f_frame

\* event.get("actual_sentiment", 0)
get_actual_sentiment(event) ==
    IF "actual_sentiment" \in DOMAIN event THEN event.actual_sentiment ELSE 0

\* the counting loop of the actual-based function over currency_events[k..]
RECURSIVE count_actual_sentiments(_, _, _)
count_actual_sentiments(currency_events, k, sentiment_counts) ==
    IF k > Len(currency_events) THEN sentiment_counts
    ELSE LET sentiment == get_actual_sentiment(currency_events[k])
         IN count_actual_sentiments(currency_events, k + 1,
                IF sentiment > 0
                THEN [sentiment_counts EXCEPT !.bullish = @ + 1]
                ELSE IF sentiment < 0
                THEN [sentiment_counts EXCEPT !.bearish = @ + 1]
                ELSE [sentiment_counts EXCEPT !.neutral = @ + 1])

\* the dict the actual-based function returns, without its "actual_reason"
\* text: these four keys and no other
actual_resolution(final_sentiment, final_value, total_events, sentiment_counts) ==
    [final_actual_sentiment |-> final_sentiment,
     final_actual_sentiment_value |-> final_value,
     event_count |-> total_events,
     actual_sentiment_breakdown |-> sentiment_counts]

resolve_actual_currency_conflicts(currency_events) ==
    IF Len(currency_events) = 0
    THEN actual_resolution("Neutral", 0, 0, no_counts)
    ELSE LET sentiment_counts == count_actual_sentiments(currency_events, 1, no_counts)
             total_events == Len(currency_events)
         IN IF majority_bullish(sentiment_counts)
            THEN actual_resolution("Bullish", 1, total_events, sentiment_counts)
            ELSE IF majority_bearish(sentiment_counts)
            THEN actual_resolution("Bearish", -1, total_events, sentiment_counts)
            ELSE IF majority_neutral(sentiment_counts)
            THEN actual_resolution("Neutral", 0, total_events, sentiment_counts)
            ELSE IF tie_resolves_bearish(sentiment_counts)
            THEN actual_resolution("Bearish with Consolidation", -1, total_events, sentiment_counts)
            ELSE actual_resolution("Bullish with Consolidation", 1, total_events, sentiment_counts)

\* the analysed events of a currency with their actual sentiment: a
\* sentiment of either sign with the data available, a neutral one with the
\* data missing, and an event without the sentiment key
ActualAnalysedEvents ==
    [actual_sentiment : {-1, 0, 1}, actual_data_available : {TRUE}]
        \cup {[actual_sentiment |-> 0, actual_data_available |-> FALSE],
              [actual_data_available |-> FALSE]}

ActualEventLists(n) == UNION {[1..k -> ActualAnalysedEvents] : k \in 0..n}

apply_resolve_actual(currency_events) ==
    /\ f_pc = "idle"
    /\ f_pc' = "resolve_actual_currency_conflicts"
    /\ f_in' = currency_events
    /\ f_out' = resolve_actual_currency_conflicts(currency_events)
    /\ f_frame

NextResolve ==
    \/ /\ f_pc = "idle"
       /\ \E currency_events \in EventLists(MaxEvents) : apply_resolve(currency_events)
    \/ /\ f_pc = "idle"
       /\ \E currency_events \in ActualEventLists(MaxEvents) : apply_resolve_actual(currency_events)

InitResolve == Init({3}, {FALSE})

SpecResolve == InitResolve /\ [][NextResolve]_vars

resolved == f_pc = "resolve_currency_conflicts"

\* the three counts, taken from the list as a whole
Bullish == Cardinality({i \in DOMAIN f_in : get_sentiment(f_in[i]) > 0})
Bearish == Cardinality({i \in DOMAIN f_in : get_sentiment(f_in[i]) < 0})
Neutral == Cardinality({i \in DOMAIN f_in : get_sentiment(f_in[i]) = 0})

PlainLabels ==
    /\ (f_out.final_sentiment = "Bullish") <=> (Bullish > Bearish /\ Bullish > Neutral)
    /\ (f_out.final_sentiment = "Bearish") <=> (Bearish > Bullish /\ Bearish > Neutral)
    /\ (f_out.final_sentiment = "Neutral") <=> (Neutral > Bullish /\ Neutral > Bearish)
    /\ (f_out.final_sentiment = "Bullish") => f_out.final_sentiment_value = 1
    /\ (f_out.final_sentiment = "Bearish") => f_out.final_sentiment_value = -1
    /\ (f_out.final_sentiment = "Neutral") => f_out.final_sentiment_value = 0
    /\ f_out.sentiment_breakdown = [bullish |-> Bullish, bearish |-> Bearish, neutral |-> Neutral]

\* C19 as stated: the result is the plain label Bullish (+1), Bearish (-1)
\* or Neutral (0) exactly when the count of that kind strictly exceeds both
\* other counts, and the breakdown holds the three counts.
C19_AsStated == resolved => PlainLabels

\* C19 amended: the same for a non-empty list; the empty list gives the
\* plain label Neutral (0) with three counts of 0.
C19_StrictMajority ==
    resolved =>
        /\ Len(f_in) > 0 => PlainLabels
        /\ Len(f_in) = 0 =>
               /\ f_out.final_sentiment = "Neutral"
               /\ f_out.final_sentiment_value = 0
               /\ f_out.sentiment_breakdown = [bullish |-> 0, bearish |-> 0, neutral |-> 0]

C19_Witness ==
    /\ resolved
    /\ Len(f_in) = 3
    /\ Bullish = 1 /\ Bearish = 2 /\ Neutral = 0
    /\ f_out.final_sentiment = "Bearish"
    /\ f_out.sentiment_breakdown.bearish = 2

NoStrictMajority ==
    /\ ~(Bullish > Bearish /\ Bullish > Neutral)
    /\ ~(Bearish > Bullish /\ Bearish > Neutral)
    /\ ~(Neutral > Bullish /\ Neutral > Bearish)

C21_AsStated ==
    (resolved /\ Bullish = Neutral /\ Bullish > Bearish) =>
        /\ f_out.final_sentiment = "Bullish"
        /\ f_out.final_sentiment_value = 1

resolved_actual == f_pc = "resolve_actual_currency_conflicts"

\* the events of the list whose actual data is available, and the others
Available == Cardinality({i \in DOMAIN f_in : f_in[i].actual_data_available})
Missing == Cardinality({i \in DOMAIN f_in : ~f_in[i].actual_data_available})

\* C22 as stated: the result of the actual-based function holds, next to the
\* breakdown, a data-availability count whose 'available' is the number of
\* events with actual data, whose 'missing' is the number of events without,
\* and the two add up to event_count.
C22_AsStated ==
    resolved_actual =>
        /\ "data_availability" \in DOMAIN f_out
        /\ f_out.data_availability.available = Available
        /\ f_out.data_availability.missing = Missing
        /\ f_out.data_availability.available + f_out.data_availability.missing = f_out.event_count

(* ---------------------------------------------------------------------- *)
(* calculate_weekly_sentiments and persist_sentiments (SpecPersist)        *)
(* ---------------------------------------------------------------------- *)
\* number of calls of calculate_weekly_sentiments on one calculator
MaxWeeklyCalls == 2

SecondsPerDay == 86400

\* datetime.date(): the day of a datetime given in seconds
date(t) == t \div SecondsPerDay

\* week_start and week_end as the caller hands them in: one week, the same
\* week with another time of day at its start, and the week after
Weeks ==
    { <<7 * SecondsPerDay, 13 * SecondsPerDay + 86399>>,
      <<7 * SecondsPerDay + 3600, 13 * SecondsPerDay + 86399>>,
      <<14 * SecondsPerDay, 20 * SecondsPerDay + 86399>> }

FinalSentiments == {"Bullish", "Bearish with Consolidation"}

\* one item of currency_sentiments
CurrencySentiment(currency, final_sentiment) ==
    [currency |-> currency, resolution |-> [final_sentiment |-> final_sentiment]]

\* the items of currency_sentiments in the order of the dict, which is the
\* order of the events (ORDER BY e.currency), each currency once
CurrencySentiments ==
    {<<CurrencySentiment(EUR, a)>> : a \in FinalSentiments}
        \cup {<<CurrencySentiment(USD, a)>> : a \in FinalSentiments}
        \cup {<<CurrencySentiment(EUR, a), CurrencySentiment(USD, b)>> :
                  a \in FinalSentiments, b \in FinalSentiments}

\* the filter of the query for an existing record
same_week(row, currency, week_start, week_end) ==
    /\ row.currency = currency
    /\ row.week_start = date(week_start)
    /\ row.week_end = date(week_end)

existing_m(rows, currency, week_start, week_end) == 0

\* query(Sentiment).filter(...).first(): the position of the first row of
\* the week for the currency, 0 for None
existing(rows, currency, week_start, week_end) ==
    IF \E i \in DOMAIN rows : same_week(rows[i], currency, week_start, week_end)
    THEN CHOOSE i \in DOMAIN rows :
             /\ same_week(rows[i], currency, week_start, week_end)
             /\ \A j \in DOMAIN rows :
                    same_week(rows[j], currency, week_start, week_end) => i <= j
    ELSE 0

\* Sentiment(currency=..., week_start=week_start.date(), ...)
sentiment_record(sentiment_data, week_start, week_end, t) ==
    [currency |-> sentiment_data.currency,
     week_start |-> date(week_start),
     week_end |-> date(week_end),
     final_sentiment |-> sentiment_data.resolution.final_sentiment,
     computed_at |-> t]

s_frame == UNCHANGED <<collector_vars, f_vars>>

weekly_may_begin ==
    /\ s_pc \in {"idle", "returned", "raised"}
    /\ s_calls < MaxWeeklyCalls

\* calculate_weekly_sentiments: get_week_events_with_indicators raises
weekly_events_raise ==
    /\ weekly_may_begin
    /\ s_calls' = s_calls + 1
    /\ s_pc' = "raised"
    /\ s_items' = <<>>
    /\ s_todo' = <<>>
    /\ h_sentiments_before' = sentiments
    /\ UNCHANGED <<sentiments, s_session, s_window>>
    /\ s_frame

\* calculate_weekly_sentiments: no events in the week, {} is returned
weekly_no_events(week) ==
    /\ weekly_may_begin
    /\ s_calls' = s_calls + 1
    /\ s_pc' = "returned"
    /\ s_items' = <<>>
    /\ s_todo' = <<>>
    /\ s_window' = week
    /\ h_sentiments_before' = sentiments
    /\ UNCHANGED <<sentiments, s_session>>
    /\ s_frame

\* calculate_weekly_sentiments up to the call of persist_sentiments
weekly_persist(week, currency_sentiments) ==
    /\ weekly_may_begin
    /\ s_calls' = s_calls + 1
    /\ s_pc' = "persisting"
    /\ s_items' = currency_sentiments
    /\ s_todo' = currency_sentiments
    /\ s_window' = week
    /\ h_sentiments_before' = sentiments
    /\ UNCHANGED <<sentiments, s_session>>
    /\ s_frame

\* one round of the loop of persist_sentiments
persist_item ==
    /\ s_pc = "persisting"
    /\ s_todo # <<>>
    /\ LET sentiment_data == Head(s_todo)
           row == existing(s_session, sentiment_data.currency, s_window[1], s_window[2])
       IN s_session' =
              IF row # 0
              THEN [s_session EXCEPT
                       ![row].final_sentiment = sentiment_data.resolution.final_sentiment,
                       ![row].computed_at = now]
              ELSE Append(s_session,
                          sentiment_record(sentiment_data, s_window[1], s_window[2], now))
    /\ s_todo' = Tail(s_todo)
    /\ UNCHANGED <<sentiments, s_pc, s_items, s_window, s_calls, h_sentiments_before>>
    /\ s_frame

\* self.db.rollback() and raise
persist_rollback ==
    /\ s_session' = sentiments
    /\ s_pc' = "raised"
    /\ s_todo' = <<>>
    /\ UNCHANGED <<sentiments, s_items, s_window, s_calls, h_sentiments_before>>
    /\ s_frame

\* the query of a round raises
persist_item_raises ==
    /\ s_pc = "persisting"
    /\ s_todo # <<>>
    /\ persist_rollback

\* self.db.commit()
persist_commit ==
    /\ s_pc = "persisting"
    /\ s_todo = <<>>
    /\ sentiments' = s_session
    /\ s_pc' = "returned"
    /\ UNCHANGED <<s_session, s_items, s_todo, s_window, s_calls, h_sentiments_before>>
    /\ s_frame

\* self.db.commit() raises
persist_commit_raises ==
    /\ s_pc = "persisting"
    /\ s_todo = <<>>
    /\ persist_rollback

NextPersist ==
    \/ \E d \in RunTickSteps : Tick(d)
    \/ weekly_events_raise
    \/ \E week \in Weeks : weekly_no_events(week)
    \/ \E week \in Weeks, currency_sentiments \in CurrencySentiments :
           weekly_persist(week, currency_sentiments)
    \/ persist_item
    \/ persist_item_raises
    \/ persist_commit
    \/ persist_commit_raises

InitPersist == Init({3}, {FALSE})

SpecPersist == InitPersist /\ [][NextPersist]_vars

\* the rows of a table for a currency and the dates of a week
RowsOf(rows, currency, week) ==
    {i \in DOMAIN rows :
        /\ rows[i].currency = currency
        /\ rows[i].week_start = week[1] \div 86400
        /\ rows[i].week_end = week[2] \div 86400}

OneRowPerWeek(rows) ==
    \A i \in DOMAIN rows, j \in DOMAIN rows :
        (/\ rows[i].currency = rows[j].currency
         /\ rows[i].week_start = rows[j].week_start
         /\ rows[i].week_end = rows[j].week_end) => i = j

\* the currencies of the call
CallCurrencies == {s_items[k].currency : k \in DOMAIN s_items}

\* C23: the table holds at most one row per (currency, week start, week
\* end); nothing of a call is stored before its commit; a call that returns
\* has for each of its currencies exactly one row of the week, with the
\* verdict of this call, the row that was there before where there was one,
\* and has left every other row as it was; a call that raises has left the
\* table as it was when the call began, and the session holds nothing more.
C23_OneVerdictPerWeek ==
    /\ OneRowPerWeek(sentiments)
    /\ s_pc = "persisting" => sentiments = h_sentiments_before
    /\ s_pc = "raised" => (sentiments = h_sentiments_before /\ s_session = sentiments)
    /\ s_pc = "returned" =>
           /\ \A k \in DOMAIN s_items :
                  /\ Cardinality(RowsOf(sentiments, s_items[k].currency, s_window)) = 1
                  /\ \A i \in RowsOf(sentiments, s_items[k].currency, s_window) :
                         sentiments[i].final_sentiment = s_items[k].resolution.final_sentiment
                  /\ RowsOf(h_sentiments_before, s_items[k].currency, s_window)
                         \subseteq RowsOf(sentiments, s_items[k].currency, s_window)
           /\ Len(sentiments) = Len(h_sentiments_before)
                  + Cardinality({c \in CallCurrencies : RowsOf(h_sentiments_before, c, s_window) = {}})
           /\ \A i \in DOMAIN h_sentiments_before :
                  (\A c \in CallCurrencies : i \notin RowsOf(h_sentiments_before, c, s_window))
                      => sentiments[i] = h_sentiments_before[i]

C23_Witness ==
    /\ s_pc = "returned"
    /\ s_calls = 2
    /\ s_items # <<>>
    /\ Len(h_sentiments_before) = 2
    /\ Len(sentiments) = 2
    /\ h_sentiments_before[1].final_sentiment = "Bullish"
    /\ sentiments[1].final_sentiment = "Bearish with Consolidation"
    /\ sentiments[1].computed_at > h_sentiments_before[1].computed_at
    /\ sentiments[2] = h_sentiments_before[2]

(* ---------------------------------------------------------------------- *)
(* Many calls on one collector instance (SpecBackoff)                      *)
(* ---------------------------------------------------------------------- *)
\* number of direct calls of collect_actual_data_for_event on one collector
\* instance with retry_limit 1
MaxBackoffCalls == 12
BackoffRetryLimits == {1}

call_collect_backoff(e) ==
    /\ no_call_in_progress
    /\ calls < MaxBackoffCalls
    /\ calls' = calls + 1
    /\ collect_enter(e)
    /\ UNCHANGED <<r_vars, h_run_collects, h_fetch_failed>>

NextBackoff ==
    \/ \E d \in TickSteps : Tick(d)
    \/ \E e \in EventIds : call_collect_backoff(e)
    \/ collect_attempt_raises
    \/ collect_attempt_empty
    \/ \E calendar_events \in Snapshots : collect_attempt_snapshot(calendar_events)

InitBackoff == Init(BackoffRetryLimits, {FALSE})

SpecBackoff == InitBackoff /\ [][NextBackoff]_vars

\* runs that follow each other on one instance without waiting, each attempt
\* made once: enough failed calls for the breaker to open inside a run
run_query_raises_long == run_query_raises_within(MaxLongRuns)

run_query_answers_long == run_query_answers_within(MaxLongRuns)

NextRunLong ==
    \/ run_query_raises_long
    \/ run_query_answers_long
    \/ run_collect
    \/ collect_attempt_raises
    \/ collect_attempt_empty
    \/ \E calendar_events \in Snapshots : collect_attempt_snapshot(calendar_events)
    \/ run_after_collect
    \/ update_attempt_commits
    \/ update_attempt_query_raises
    \/ update_attempt_commit_raises
    \/ update_except
    \/ run_after_update
    \/ run_finish

InitRunLong == Init(BackoffRetryLimits, {FALSE})

SpecRunLong == InitRunLong /\ [][NextRunLong]_vars

\* the steps of a call that touch the multiplier
value_returned == c_pc \in {"attempt", "sleeping"} /\ c_pc' = "returned" /\ c_result' # None
failure_recorded == consecutive_failures' = consecutive_failures + 1
breaker_auto_reset == call_begins /\ circuit_breaker_open /\ ~circuit_breaker_open'

\* C24: the backoff multiplier (in thousandths) starts at 1.0 and always
\* lies in [0.5, 2.0]; a success sets it to max(0.5, 0.9 x multiplier), a
\* recorded failure to min(2.0, 1.1 x multiplier), an auto-reset of the
\* breaker to 1.0, and no other step changes it.
C24_MultiplierBounded ==
    /\ backoff_multiplier = 1000
    /\ [](backoff_multiplier >= 500 /\ backoff_multiplier <= 2000)
    /\ [][/\ value_returned =>
                 backoff_multiplier' =
                     IF (backoff_multiplier * 9) \div 10 >= 500
                     THEN (backoff_multiplier * 9) \div 10 ELSE 500
          /\ failure_recorded =>
                 backoff_multiplier' =
                     IF (backoff_multiplier * 11) \div 10 <= 2000
                     THEN (backoff_multiplier * 11) \div 10 ELSE 2000
          /\ breaker_auto_reset => backoff_multiplier' = 1000
          /\ ~(value_returned \/ failure_recorded \/ breaker_auto_reset) =>
                 backoff_multiplier' = backoff_multiplier]_vars

\* the ceiling has cut a tightened multiplier
C24_Witness ==
    /\ backoff_multiplier = 2000
    /\ consecutive_failures > 0
    /\ ~circuit_breaker_open
    /\ c_pc = "returned"

\* C25: the breaker is open exactly when the count of consecutive failures
\* is at least the threshold (5), and whenever it is open a last-failure
\* time is recorded.
C25_OpenIffThreshold ==
    /\ circuit_breaker_open <=> consecutive_failures >= 5
    /\ circuit_breaker_open => last_failure_time # None

\* the fifth recorded failure in a row has opened the breaker, after earlier
\* calls that recorded none
C25_Witness ==
    /\ circuit_breaker_open
    /\ consecutive_failures = 5
    /\ last_failure_time = now
    /\ h_failures_before = 4
    /\ calls > 5
    /\ c_pc = "returned"

\* C26: one call raises the count of consecutive failures by at most one,
\* however many of its attempts fail: a failure is recorded only by a raising
\* attempt that brings retry_count to retry_limit, and an attempt that gets
\* an empty snapshot uses up a retry and leaves the breaker as it is.
C26_OneFailurePerCall ==
    /\ [](consecutive_failures <= h_failures_before + 1)
    /\ [][/\ failure_recorded =>
                 /\ collect_attempt_raises
                 /\ retry_count' = retry_limit
                 /\ c_pc' = "returned"
          /\ collect_attempt_empty =>
                 /\ retry_count' = retry_count + 1
                 /\ UNCHANGED breaker_vars]_vars

\* a call of eight attempts, six or more of them raising, has recorded one
\* failure
C26_Witness ==
    /\ c_pc = "returned"
    /\ calls = 1
    /\ retry_limit = 8
    /\ retry_count = 8
    /\ scrape_calls = 8
    /\ h_failed_attempts = HistoryCap
    /\ h_failures_before = 0
    /\ consecutive_failures = 1

\* the step in which a call returns None from a snapshot that has entries
\* and no matching entry with an actual value
no_match_returned ==
    /\ c_pc \in {"attempt", "sleeping"}
    /\ c_pc' = "returned"
    /\ scrape_calls' = scrape_calls + 1
    /\ retry_count' = retry_count
    /\ c_result' = None

\* C27 as stated: a call that gets a snapshot with entries and finds no
\* matching entry with an actual value returns None and leaves the breaker
\* as it was before the call.
C27_AsStated ==
    [][no_match_returned =>
           /\ UNCHANGED breaker_vars
           /\ consecutive_failures' = h_failures_before]_vars

\* C27 amended: such a call leaves the breaker as its own entry check left
\* it: as it was before the call, or reset (count 0, closed, multiplier 1.0)
\* where the breaker was open and its cooldown had passed.
C27_NoMatchKeepsBreaker ==
    [][no_match_returned =>
           /\ UNCHANGED breaker_vars
           /\ ~circuit_breaker_open'
           /\ IF h_failures_before >= 5
              THEN consecutive_failures' = 0 /\ backoff_multiplier' = 1000
              ELSE consecutive_failures' = h_failures_before]_vars

\* a call after three recorded failures has found no match; the three
\* failures still count
C27_Witness ==
    /\ c_pc = "returned"
    /\ c_result = None
    /\ scrape_calls = 1
    /\ retry_count = 0
    /\ h_failures_before = 3
    /\ consecutive_failures = 3
    /\ backoff_multiplier = 1331
    /\ last_failure_time # None

(* ---------------------------------------------------------------------- *)
(* C28: the two counters of a run that returns                             *)
(* ---------------------------------------------------------------------- *)
\* the pending events of the run whose latest row carries an actual value now
UpdatedEvents ==
    {k \in DOMAIN events_missing_data :
        indicators[events_missing_data[k].indicator_id].is_actual_available}

\* C28: when collect_all_missing_actual_data returns, the first counter is the
\* number of events the pending-event query answered, each of which was handed
\* to collect_actual_data_for_event once, whether the breaker let it through
\* or not and whether its fetch or its update failed or not; the second
\* counter is the number of those events for which a value was resolved and
\* the update committed; and 0 <= second <= first.
C28_Counts ==
    r_pc = "returned" =>
        /\ total_processed = Len(events_missing_data)
        /\ total_processed = h_run_collects
        /\ successful_updates = Cardinality(DOMAIN h_persisted)
        /\ successful_updates = Cardinality(UpdatedEvents)
        /\ 0 <= successful_updates
        /\ successful_updates <= total_processed

\* a run returned with two events counted and none updated: the breaker is
\* open and the last event was turned away without a request
C28_Witness ==
    /\ r_pc = "returned"
    /\ total_processed = 2
    /\ successful_updates = 0
    /\ circuit_breaker_open
    /\ c_result = None
    /\ scrape_calls = 0

(* ---------------------------------------------------------------------- *)
(* C29: the verdict of either resolver against the counts of its input     *)
(* ---------------------------------------------------------------------- *)
\* the three counts of the actual-based function, taken from the list as a whole
ActualBullish == Cardinality({i \in DOMAIN f_in : get_actual_sentiment(f_in[i]) > 0})
ActualBearish == Cardinality({i \in DOMAIN f_in : get_actual_sentiment(f_in[i]) < 0})
ActualNeutral == Cardinality({i \in DOMAIN f_in : get_actual_sentiment(f_in[i]) = 0})

VerdictAgrees(final_value, breakdown, n_bullish, n_bearish, n_neutral) ==
    /\ final_value \in {-1, 0, 1}
    /\ final_value = -1 => n_bearish >= n_bullish
    /\ final_value = 1 => n_bullish > n_bearish
    /\ final_value = 0 => (n_neutral > n_bullish /\ n_neutral > n_bearish)
    /\ breakdown = [bullish |-> n_bullish, bearish |-> n_bearish, neutral |-> n_neutral]
    /\ breakdown.bullish + breakdown.bearish + breakdown.neutral = f_out.event_count
    /\ f_out.event_count = Len(f_in)

\* C29: for a list that is not empty, the value either function returns is
\* -1 only when the bearish events are at least as many as the bullish ones,
\* +1 only when the bullish events outnumber the bearish ones, 0 only when the
\* neutral events outnumber both; the breakdown holds the three counts of the
\* list and they add up to event_count.
C29_VerdictAgreesWithCounts ==
    /\ (resolved /\ Len(f_in) > 0) =>
           VerdictAgrees(f_out.final_sentiment_value, f_out.sentiment_breakdown,
                         Bullish, Bearish, Neutral)
    /\ (resolved_actual /\ Len(f_in) > 0) =>
           VerdictAgrees(f_out.final_actual_sentiment_value, f_out.actual_sentiment_breakdown,
                         ActualBullish, ActualBearish, ActualNeutral)

\* the actual-based function on five events, two bullish, two bearish and one
\* without the key: the tie is given -1
C29_Witness ==
    /\ resolved_actual
    /\ Len(f_in) = 5
    /\ ActualBullish = 2 /\ ActualBearish = 2 /\ ActualNeutral = 1
    /\ \E i \in DOMAIN f_in : "actual_sentiment" \notin DOMAIN f_in[i]
    /\ f_out.final_actual_sentiment_value = -1
    /\ f_out.event_count = 5

(* ---------------------------------------------------------------------- *)
(* Ingestion between the runs of the collector (SpecIngest)                *)
(* ---------------------------------------------------------------------- *)
\* rows add_or_update_indicator may append to the indicators table
MaxIngests == 1

\* the events a later scrape finds again, and the values it finds for them
IngestedEventIds == {1, 2}
IngestedPreviousValues == {1, 2}
IngestedForecastValues == {2, 3}

\* query(Indicator).filter(event_id == event.id)
\*     .order_by(timestamp_collected.desc()).first()
latest_collected(table, event_id) ==
    LET rows == {i \in DOMAIN table : table[i].event_id = event_id}
    IN IF rows = {} THEN None
       ELSE CHOOSE i \in rows :
                \A j \in rows : table[j].timestamp_collected <= table[i].timestamp_collected

\* Indicator(event_id, previous_value, forecast_value, timestamp_collected):
\* the columns of the actual value are left to their defaults
new_indicator(event_id, previous_value, forecast_value, t) ==
    [event_id |-> event_id, previous_value |-> previous_value,
     forecast_value |-> forecast_value, timestamp_collected |-> t,
     actual_value |-> None, actual_collected_at |-> None, is_actual_available |-> FALSE]

\* add_or_update_indicator(event, previous_value, forecast_value), called by
\* the scraper's process_events while no call of the collector is under way
add_or_update_indicator(event_id, previous_value, forecast_value) ==
    /\ no_call_in_progress
    /\ Len(indicators) < Len(InitialIndicators) + MaxIngests
    /\ LET latest == latest_collected(indicators, event_id)
       IN IF /\ latest # None
             /\ indicators[latest].previous_value = previous_value
             /\ indicators[latest].forecast_value = forecast_value
          THEN UNCHANGED indicators
          ELSE indicators' = Append(indicators,
                   new_indicator(event_id, previous_value, forecast_value, now))
    /\ UNCHANGED <<now, retry_limit, monitor, breaker_vars, pending, c_vars, p_vars,
                   r_vars, calls, h_vars>>
    /\ UNCHANGED <<f_vars, s_vars>>

NextIngest ==
    \/ \E e \in IngestedEventIds, pv \in IngestedPreviousValues, fv \in IngestedForecastValues :
           add_or_update_indicator(e, pv, fv)
    \/ run_query_raises
    \/ run_query_answers
    \/ run_collect
    \/ collect_attempt_raises
    \/ collect_attempt_empty
    \/ \E calendar_events \in Snapshots : collect_attempt_snapshot(calendar_events)
    \/ run_after_collect
    \/ update_attempt_commits
    \/ update_attempt_query_raises
    \/ update_attempt_commit_raises
    \/ update_except
    \/ run_after_update
    \/ run_finish

InitIngest == Init(BackoffRetryLimits, {FALSE})

SpecIngest == InitIngest /\ [][NextIngest]_vars

(* ---------------------------------------------------------------------- *)
(* C30: an event with a stored actual value and the pending-event query    *)
(* ---------------------------------------------------------------------- *)
\* some row of the event carries an actual value
actual_stored(table, event_id) ==
    \E i \in DOMAIN table : table[i].event_id = event_id /\ table[i].is_actual_available

\* get_events_missing_actual_data has just answered with a list
query_answered == r_pc \in {"idle", "returned", "raised"} /\ r_pc' \in {"next", "returned"}

====
